---------------------------- MODULE Spec2Model ----------------------------
(***************************************************************************)
(* Trust-score validation loop of plugin-social-alpha: the balanced trust  *)
(* score calculator, the simulation runner with its profit back-fill, the  *)
(* accuracy evaluator and the grid-search parameter optimizer.             *)
(*                                                                         *)
(* Numbers.  JavaScript doubles are modelled as fixed-point integers with  *)
(* three decimals (1000 stands for 1.0); every operation rounds toward     *)
(* minus infinity, which is monotone as IEEE rounding is.  A value that    *)
(* may be NaN is a record [nan, v].                                        *)
(***************************************************************************)
EXTENDS Integers, Sequences, FiniteSets, TLC

VARIABLES
    scArgs,        \* arguments of the calculateBalancedTrustScore call
    scScore,       \* its returned value: [set, nan, v]
    scPrevArgs,    \* arguments of the previous call (same calculator)
    scPrevScore,   \* value returned by the previous call
    statInput,     \* the samples handed to a statistical function
    statOutput,    \* the function called on them and the number it returned
    currentParams,     \* TrustScoreOptimizer.currentParams
    optPc,             \* position inside optimizeParameters
    optRanges,         \* parameterRanges: sequence of <<key, values>> entries
    optPreParams,      \* currentParams when optimizeParameters was entered
    simulationData,    \* the data getSimulationData returned
    paramCombinations, \* the enumerated candidates
    optIndex,          \* index of the next candidate of the for loop
    bestParams,        \* local of optimizeParameters
    bestScore,         \* local of optimizeParameters: [inf, v]
    maeLog,            \* accuracy.mae of each candidate evaluated so far
    optReturned,       \* value returned by optimizeParameters: [set, params]
    optRuns,           \* optimizeParameters calls started
    accScores,         \* argument of the latest evaluateAccuracy call: [set, scores]
    accResult,         \* value returned by that call
    config,            \* the SimulationConfig passed to runSimulation
    simPc,             \* position inside runSimulation
    currentTime,       \* the simulation clock, in minutes
    stepCount,         \* iterations of the stepping loop
    calls,             \* the call log
    tokens,            \* the token registry: address -> token
    priceHistory,      \* address -> sequence of [timestamp, price]
    actorPerformance,  \* per-actor performance, in config.actors order
    cacheFiles,        \* the cache files of the output directory, by name
    loadResult,        \* what the latest loadCachedSimulation gave getSimulationData
    dataSource,        \* where getSimulationData took its data from
    dataRequest,       \* the config argument of the latest getSimulationData call
    readFiles,         \* what the readFile calls of a load in progress resolved with
    written,           \* writeFile calls a cacheResults over an existing cache completed
    priorCache,        \* the result an earlier run cached in the directory
    passes,            \* back-fill passes run over the call log
    firstPass          \* the call log as the first back-fill pass left it

scoreVars == <<scArgs, scScore, scPrevArgs, scPrevScore, statInput, statOutput>>

optVars == <<currentParams, optPc, optRanges, optPreParams, simulationData,
             paramCombinations, optIndex, bestParams, bestScore, maeLog,
             optReturned, optRuns, accScores, accResult>>

logVars == <<calls, tokens, priceHistory, passes, firstPass>>

runVars == <<config, simPc, currentTime, stepCount, actorPerformance, cacheFiles>>

simVars == <<logVars, runVars>>

cacheVars == <<loadResult, dataSource, dataRequest, readFiles, written, priorCache>>

vars == <<scoreVars, optVars, simVars, cacheVars>>

---------------------------------------------------------------------------
(* Fixed-point helpers *)

Scale == 10 * 10 * 10

Min(a, b) == IF a < b THEN a ELSE b

Max(a, b) == IF a > b THEN a ELSE b

Num(x) == [nan |-> FALSE, v |-> x]

NaN == [nan |-> TRUE, v |-> 0]

---------------------------------------------------------------------------
(* BalancedTrustScoreCalculator *)

\* The archetype keys of the three lookup tables (bases, scaling, tolerance).
KnownArchetypes ==
    {"elite_analyst", "skilled_trader", "technical_analyst", "contrarian",
     "newbie", "fomo_trader", "pump_chaser", "bot_spammer", "rug_promoter"}

\* Keys every object literal inherits from Object.prototype: bases[k] is a
\* function or object there, truthy under ||, and NaN under arithmetic.
ObjectPrototypeKeys == {"constructor", "toString", "__proto__"}

DefaultBalancedParams ==
    [profitWeight |-> 250, winRateWeight |-> 250, sharpeWeight |-> 150,
     alphaWeight |-> 100, consistencyWeight |-> 100, qualityWeight |-> 150,
     normalVolumeThreshold |-> 100, highVolumeThreshold |-> 300,
     extremeVolumeThreshold |-> 500,
     volumeToleranceByArchetype |->
        [elite_analyst |-> 2000, skilled_trader |-> 1500,
         technical_analyst |-> 1300, contrarian |-> 1000, newbie |-> 800,
         fomo_trader |-> 600, pump_chaser |-> 500, bot_spammer |-> 300,
         rug_promoter |-> 300]]

getArchetypeBase(archetype) ==
    LET bases == [elite_analyst |-> 85000, skilled_trader |-> 65000,
                  technical_analyst |-> 55000, contrarian |-> 50000,
                  newbie |-> 35000, fomo_trader |-> 25000,
                  pump_chaser |-> 20000, bot_spammer |-> 10000,
                  rug_promoter |-> 5000]
    IN  IF archetype \in DOMAIN bases THEN Num(bases[archetype])
        ELSE IF archetype \in ObjectPrototypeKeys THEN NaN
        ELSE Num(30000)

calculateProfitComponent(avgProfit) ==
    IF avgProfit > 50000
      THEN 90000 + Min(10000, (avgProfit - 50000) \div 10)
    ELSE IF avgProfit > 20000
      THEN 70000 + ((avgProfit - 20000) * 67) \div 100
    ELSE IF avgProfit > 0
      THEN 50000 + avgProfit
    ELSE IF avgProfit > -30000
      THEN 30000 + (avgProfit * 20) \div 30
    ELSE Max(0, 30000 + (avgProfit * 3) \div 10)

calculateWinRateComponent(winRate) ==
    IF winRate >= 800 THEN 85000 + (winRate - 800) * 75
    ELSE IF winRate >= 600 THEN 70000 + (winRate - 600) * 75
    ELSE IF winRate >= 500 THEN 50000 + (winRate - 500) * 200
    ELSE IF winRate >= 300 THEN 20000 + (winRate - 300) * 150
    ELSE (winRate * 6667) \div 100

calculateSharpeComponent(sharpe) ==
    IF sharpe > 1500 THEN 90000 + Min(10000, (sharpe - 1500) * 10)
    ELSE IF sharpe > 500 THEN 60000 + (sharpe - 500) * 30
    ELSE IF sharpe > 0 THEN 50000 + sharpe * 20
    ELSE IF sharpe > -1000 THEN 30000 + sharpe * 20
    ELSE Max(0, 30000 + sharpe * 10)

calculateAlphaComponent(alpha) ==
    IF alpha > 20000 THEN 80000 + Min(20000, (alpha - 20000) \div 2)
    ELSE IF alpha > 0 THEN 50000 + (alpha * 3) \div 2
    ELSE IF alpha > -20000 THEN 50000 + (alpha * 3) \div 2
    ELSE Max(0, 50000 + alpha \div 2)

\* goodRatio and rugRatio are kept as exact fractions over totalCalls; the
\* quality is rounded once, after the subtraction and the bonus.
calculateQualityComponent(rugPromotions, goodCalls, totalCalls) ==
    IF totalCalls = 0 THEN 50000
    ELSE LET base    == goodCalls * 100 - rugPromotions * 200
             bonus   == IF 2 * goodCalls > totalCalls THEN 20 * totalCalls ELSE 0
             quality == ((base + bonus) * Scale) \div totalCalls
         IN  Max(0, Min(100000, quality))

\* A variant that stops adjusting past the extreme threshold.
calculateVolumeAdjustmentNoExtreme(params, totalCalls, archetype) ==
    LET tol == params.volumeToleranceByArchetype
        tolerance == IF archetype \in DOMAIN tol THEN tol[archetype] ELSE 1000
        normal  == params.normalVolumeThreshold * tolerance
        high    == params.highVolumeThreshold * tolerance
        extreme == params.extremeVolumeThreshold * tolerance
        scaledCalls   == totalCalls * Scale
    IN  IF scaledCalls <= normal THEN 1000
        ELSE IF scaledCalls <= high
          THEN 1000 - ((((scaledCalls - normal) * Scale) \div (high - normal)) * 200) \div Scale
        ELSE IF scaledCalls <= extreme
          THEN 800 - ((((scaledCalls - high) * Scale) \div (extreme - high)) * 300) \div Scale
        ELSE 1000

\* Thresholds are in thousandths of a call (threshold * tolerance).  For an
\* inherited key the tolerance is not a number, every comparison is false
\* and the last branch is taken.
calculateVolumeAdjustment(params, totalCalls, archetype) ==
    LET tol == params.volumeToleranceByArchetype
        tolerance == IF archetype \in DOMAIN tol THEN tol[archetype] ELSE 1000
        normal  == params.normalVolumeThreshold * tolerance
        high    == params.highVolumeThreshold * tolerance
        extreme == params.extremeVolumeThreshold * tolerance
        scaledCalls   == totalCalls * Scale
    IN  IF archetype \in ObjectPrototypeKeys THEN 500
        ELSE IF scaledCalls <= normal THEN 1000
        ELSE IF scaledCalls <= high
          THEN 1000 - ((((scaledCalls - normal) * Scale) \div (high - normal)) * 200) \div Scale
        ELSE IF scaledCalls <= extreme
          THEN 800 - ((((scaledCalls - high) * Scale) \div (extreme - high)) * 300) \div Scale
        ELSE 500

getArchetypeScaling(archetype) ==
    LET scaling == [elite_analyst |-> 1150, skilled_trader |-> 1100,
                    technical_analyst |-> 1050, contrarian |-> 1000,
                    newbie |-> 950, fomo_trader |-> 850, pump_chaser |-> 750,
                    bot_spammer |-> 600, rug_promoter |-> 500]
    IN  IF archetype \in DOMAIN scaling THEN Num(scaling[archetype])
        ELSE IF archetype \in ObjectPrototypeKeys THEN NaN
        ELSE Num(900)

\* metrics: [averageProfit, winRate, sharpeRatio, alpha, consistency].
calculateBalancedTrustScore(params, metrics, archetype, rugPromotions, goodCalls, totalCalls) ==
    LET archetypeBase == getArchetypeBase(archetype)
        profit      == (calculateProfitComponent(metrics.averageProfit) * params.profitWeight) \div Scale
        winRate     == (calculateWinRateComponent(metrics.winRate) * params.winRateWeight) \div Scale
        sharpe      == (calculateSharpeComponent(metrics.sharpeRatio) * params.sharpeWeight) \div Scale
        alpha       == (calculateAlphaComponent(metrics.alpha) * params.alphaWeight) \div Scale
        consistency == (metrics.consistency * 100 * params.consistencyWeight) \div Scale
        quality     == (calculateQualityComponent(rugPromotions, goodCalls, totalCalls)
                          * params.qualityWeight) \div Scale
        performanceScore  == profit + winRate + sharpe + alpha + consistency + quality
        scalingFactor     == getArchetypeScaling(archetype)
        scaledPerformance == (performanceScore * scalingFactor.v) \div Scale
        volumeAdjustment  == calculateVolumeAdjustment(params, totalCalls, archetype)
        combined == (archetypeBase.v * 400 + scaledPerformance * 600) \div Scale
        adjusted == (combined * volumeAdjustment) \div Scale
        finalScore == IF totalCalls < 5 THEN (adjusted * 800) \div Scale
                      ELSE IF totalCalls < 10 THEN (adjusted * 900) \div Scale
                      ELSE adjusted
    IN  \* Math.min(100, Math.max(0, NaN)) is NaN
        IF archetypeBase.nan \/ scalingFactor.nan THEN NaN
        ELSE Num(Min(100000, Max(0, finalScore)))

---------------------------------------------------------------------------
(* SimulationRunner: profit back-fill *)

RECURSIVE SumSeq(_)
SumSeq(s) == IF s = <<>> THEN 0 ELSE Head(s) + SumSeq(Tail(s))

RECURSIVE MapProfit(_)
\* calls.map(call => call.simulationMetadata.actualProfit || 0)
MapProfit(cs) ==
    IF cs = <<>> THEN <<>>
    ELSE <<IF Head(cs).actualProfit.set THEN Head(cs).actualProfit.v ELSE 0>>
           \o MapProfit(Tail(cs))

RECURSIVE Pow10(_)
Pow10(k) == IF k = 0 THEN 1 ELSE 10 * Pow10(k - 1)

RECURSIVE ScaledQuotient(_, _, _)
\* floor(n * 10^digits / d) for d > 0, by long division
ScaledQuotient(n, d, digits) ==
    IF digits = 0 THEN n \div d
    ELSE (n \div d) * Pow10(digits) + ScaledQuotient((n % d) * 10, d, digits - 1)

\* ((a - b) / b) * 100, in thousandths of a percent
PercentChange(a, b) == ScaledQuotient(a - b, b, 5)

Undefined == [set |-> FALSE, v |-> 0]

Defined(x) == [set |-> TRUE, v |-> x]

HoldElite == 72

HoldSkilled == 48

HoldDefault == 24

\* history.findIndex(p => p.timestamp.getTime() === call.timestamp), 1-based; 0 is -1
FindIndex(history, timestamp) ==
    IF \E i \in 1..Len(history) : history[i].timestamp = timestamp
      THEN CHOOSE i \in 1..Len(history) :
              /\ history[i].timestamp = timestamp
              /\ \A j \in 1..(i - 1) : history[j].timestamp # timestamp
      ELSE 0

\* A variant of the rug scan that takes a price at 10% of the call price as a rug.
RugIndexAtOrBelow(history, callIndex) ==
    LET hits == {i \in (callIndex + 1)..Len(history) :
                    history[i].price * 10 <= history[callIndex].price}
    IN  IF hits = {} THEN 0 ELSE CHOOSE i \in hits : \A j \in hits : i <= j

\* The rug scan: first index after callIndex priced below 10% of the call price; 0 if none.
RugIndex(history, callIndex) ==
    LET hits == {i \in (callIndex + 1)..Len(history) :
                    history[i].price * 10 < history[callIndex].price}
    IN  IF hits = {} THEN 0 ELSE CHOOSE i \in hits : \A j \in hits : i <= j

RECURSIVE DumpIndex(_, _, _)
\* The dump scan from index i with the running peak; 0 if the loop ends without a break.
DumpIndex(history, i, peakPrice) ==
    IF i > Len(history) THEN 0
    ELSE IF history[i].price > peakPrice THEN DumpIndex(history, i + 1, history[i].price)
    ELSE IF history[i].price * 10 < peakPrice * 3 THEN i
    ELSE DumpIndex(history, i + 1, peakPrice)

\* <<exitIndex, forcedExit>> of a call that is not negative
ExitOf(call, token, history, callIndex) ==
    IF token.scenario \in {"rug_fast", "rug_slow", "scam"}
      THEN LET rugIndex == RugIndex(history, callIndex)
           IN  IF rugIndex # 0 THEN <<rugIndex, TRUE>> ELSE <<callIndex, FALSE>>
    ELSE IF token.scenario = "pump_dump"
      THEN LET dumpIndex == DumpIndex(history, callIndex + 1, history[callIndex].price)
           IN  IF dumpIndex # 0 THEN <<dumpIndex, TRUE>> ELSE <<callIndex, FALSE>>
    ELSE IF call.actorArchetype = "elite_analyst"
      THEN <<Min(callIndex + HoldElite, Len(history)), FALSE>>
    ELSE IF call.actorArchetype = "skilled_trader"
      THEN <<Min(callIndex + HoldSkilled, Len(history)), FALSE>>
    ELSE <<Min(callIndex + HoldDefault, Len(history)), FALSE>>

\* entry slippage, in hundredths of the entry price
EntrySlippage(call, token) ==
    IF call.actorArchetype \in {"fomo_trader", "pump_chaser"} THEN 115
    ELSE IF call.actorArchetype = "rug_promoter"
      THEN IF token.scenario \in {"rug_fast", "rug_slow", "scam"} THEN 120 ELSE 100
    ELSE IF call.actorArchetype = "elite_analyst" THEN 98
    ELSE 100

ExitSlippage(call, forcedExit) ==
    IF forcedExit /\ call.actorArchetype \in {"pump_chaser", "fomo_trader", "rug_promoter"}
      THEN 90 ELSE 100

\* A variant of the loop body that adds to the value already stored.
BackfillCallAccumulating(call, registry, histories) ==
    IF call.caMentioned \notin DOMAIN registry THEN call
    ELSE [call EXCEPT !.actualProfit = Defined(call.actualProfit.v + 1000)]

\* A variant of the loop body that leaves a call unassigned when its step is
\* not in the history or is the last one.
BackfillCallSkipLast(call, registry, histories) ==
    IF call.caMentioned \notin DOMAIN registry THEN call
    ELSE LET history   == histories[call.caMentioned]
             callIndex == FindIndex(history, call.timestamp)
         IN  IF callIndex = 0 \/ callIndex = Len(history) THEN call
             ELSE [call EXCEPT !.actualProfit = Defined(0)]

\* The body of the loop over the calls: the call as the pass leaves it.
BackfillCall(call, registry, histories) ==
    IF call.caMentioned \notin DOMAIN registry THEN call
    ELSE LET token     == registry[call.caMentioned]
             history   == histories[call.caMentioned]
             callIndex == FindIndex(history, call.timestamp)
         IN  IF callIndex = 0 \/ callIndex = Len(history)
               THEN [call EXCEPT !.actualProfit = Defined(0)]
             ELSE IF call.sentiment = "negative"
               THEN LET entryPrice == history[callIndex].price
                        exitIndex  == Min(callIndex + HoldDefault, Len(history))
                        exitPrice  == history[exitIndex].price
                    IN  [call EXCEPT !.actualProfit =
                            Defined(ScaledQuotient(entryPrice - exitPrice, entryPrice, 5))]
             ELSE LET exit       == ExitOf(call, token, history, callIndex)
                      entryPrice == history[callIndex].price
                      exitPrice  == history[exit[1]].price
                      effectiveEntryPrice == entryPrice * EntrySlippage(call, token)
                      effectiveExitPrice  == exitPrice * ExitSlippage(call, exit[2])
                  IN  [call EXCEPT !.actualProfit =
                          Defined(PercentChange(effectiveExitPrice, effectiveEntryPrice))]

RECURSIVE calculateActualProfits(_, _, _)
calculateActualProfits(callLog, registry, histories) ==
    IF callLog = <<>> THEN <<>>
    ELSE <<BackfillCall(Head(callLog), registry, histories)>>
           \o calculateActualProfits(Tail(callLog), registry, histories)

\* A variant of generateActorCall that fills the profit in at creation.
MakeCallWithProfit(actor, address, scenario, time, sentiment) ==
    [userId |-> actor.id, username |-> actor.username, timestamp |-> time,
     caMentioned |-> address, sentiment |-> sentiment, tokenScenario |-> scenario,
     actorArchetype |-> actor.archetype, actualProfit |-> Defined(0)]

\* A variant of generateActorCall that stamps the call with the time of the
\* step after the one that produced it.
MakeCallNextStep(actor, address, scenario, time, sentiment) ==
    [userId |-> actor.id, username |-> actor.username, timestamp |-> time + 24 * 60,
     caMentioned |-> address, sentiment |-> sentiment, tokenScenario |-> scenario,
     actorArchetype |-> actor.archetype, actualProfit |-> Undefined]

\* generateActorCall: the call an actor emits on a token at currentTime
\* (actor is an ActorConfig, address the token's key in the registry).
MakeCall(actor, address, scenario, time, sentiment) ==
    [userId |-> actor.id, username |-> actor.username, timestamp |-> time,
     caMentioned |-> address, sentiment |-> sentiment, tokenScenario |-> scenario,
     actorArchetype |-> actor.archetype, actualProfit |-> Undefined]

\* Bounded call logs, registries and price histories for the back-fill pass.
MaxBackfillCalls == 2

MaxHistoryLen == 3

MaxPasses == 2

StepMinutes == 60

BackfillScenarios == {"successful", "rug_fast", "pump_dump"}

PriceInputs == {10, 100, 400}

EliteActor == [id |-> "elite-1", username |-> "EliteTrader", archetype |-> "elite_analyst"]

RugActor == [id |-> "rug-1", username |-> "RugPromotoor", archetype |-> "rug_promoter"]

\* one price point per step from time 0
HistoriesOfLen(n) ==
    {[i \in 1..n |-> [timestamp |-> (i - 1) * StepMinutes, price |-> ps[i]]] :
        ps \in [1..n -> PriceInputs]}

HistoryInputs == UNION {HistoriesOfLen(n) : n \in 0..MaxHistoryLen}

\* calls on token 1 at a step time or off the step grid, and a call naming no
\* registered token
BackfillCallInputs(scenario) ==
    {MakeCall(EliteActor, 1, scenario, t, s) :
        t \in {0, StepMinutes, StepMinutes \div 2}, s \in {"positive", "negative"}}
    \cup {MakeCall(RugActor, 1, scenario, t, "positive") : t \in {0, StepMinutes}}
    \cup {MakeCall(EliteActor, 0, scenario, 0, "positive")}

BackfillInit ==
    /\ \E scenario \in BackfillScenarios :
          /\ tokens = <<[address |-> 1, scenario |-> scenario]>>
          /\ calls \in UNION {[1..n -> BackfillCallInputs(scenario)] : n \in 0..MaxBackfillCalls}
    /\ priceHistory \in {<<h>> : h \in HistoryInputs}
    /\ passes = 0
    /\ firstPass = <<>>

---------------------------------------------------------------------------
(* SimulationRunner: tokens, prices and actor behaviour *)

\* Prices are in units of 1e-8 dollars, times in minutes.
DayMinutes == 24 * 60

RugScenarios == {"rug_fast", "rug_slow", "scam"}

GoodScenarios == {"successful", "runner_moon", "runner_steady", "bluechip"}

\* getScenarioConfig(scenario).initialPrice, for the scenarios drawn here
ScenarioInitialPrice(scenario) ==
    IF scenario = "successful" THEN 10000 ELSE 1000

RECURSIVE Compound(_, _, _)
\* price * (base / 1000) ^ step
Compound(price, base, step) ==
    IF step = 0 THEN price ELSE Compound((price * base) \div Scale, base, step - 1)

\* token.priceTrajectory(step) with Math.random() = random / 1000
PriceTrajectory(scenario, step, random) ==
    LET initialPrice == ScenarioInitialPrice(scenario)
    IN  IF scenario = "rug_fast"
          THEN IF step < 2 THEN Compound(initialPrice, 1500, step)
               ELSE initialPrice \div Scale
        ELSE IF scenario = "pump_dump"
          THEN IF step < 3 THEN (initialPrice * (Scale + (random - 500) \div 10)) \div Scale
               ELSE IF step < 5 THEN Compound(initialPrice, 5000, step - 3 + 1)
               ELSE (Compound(initialPrice, 5000, 5 - 3) * 50) \div Scale
        ELSE Compound(initialPrice, Scale + 30 + (random - 500) \div 20, step)

\* calculateTokenPrice(token, hoursSinceLaunch).price
calculateTokenPrice(token, minutesSinceLaunch, random) ==
    PriceTrajectory(token.scenario, minutesSinceLaunch \div DayMinutes, random)

\* the filter of generateCallsForTimeStep: launched and not dead
ActiveTokens(registry, histories, time) ==
    {a \in DOMAIN registry :
        /\ registry[a].launchTime <= time
        /\ ~(/\ histories[a] # <<>>
             /\ histories[a][Len(histories[a])].price * 100 < registry[a].initialPrice)}

\* price[last] / price[last - back] - 1 > gain / 1000
RecentGainAbove(history, back, gain) ==
    history[Len(history)].price * Scale > history[Len(history) - back].price * (Scale + gain)

\* the archetype filter of selectTokensForActor
ArchetypeCandidates(actor, active, registry, histories, time) ==
    IF actor.archetype = "elite_analyst"
      THEN {a \in active : /\ registry[a].scenario \notin RugScenarios
                           /\ time - registry[a].launchTime < 48 * 60
                           /\ registry[a].scenario \in GoodScenarios}
    ELSE IF actor.archetype = "skilled_trader"
      THEN {a \in active : /\ time - registry[a].launchTime < 72 * 60
                           /\ registry[a].scenario # "scam"}
    ELSE IF actor.archetype = "fomo_trader"
      THEN {a \in active : /\ Len(histories[a]) >= 10
                           /\ RecentGainAbove(histories[a], 9, 500)}
    ELSE IF actor.archetype = "pump_chaser"
      THEN {a \in active : /\ Len(histories[a]) >= 5
                           /\ RecentGainAbove(histories[a], 4, 300)}
    ELSE IF actor.archetype = "rug_promoter"
      THEN {a \in active : /\ registry[a].scenario \in actor.tokenPreferences
                           /\ registry[a].scenario # "bluechip"}
    ELSE active

\* finalTokens of selectTokensForActor: preference fallback, then timing bias
FinalTokens(actor, active, registry, histories, time) ==
    LET byArchetype == ArchetypeCandidates(actor, active, registry, histories, time)
        candidateTokens ==
            IF byArchetype = {}
              THEN {a \in active : registry[a].scenario \in actor.tokenPreferences}
              ELSE byArchetype
        Timed(a) ==
            LET sinceLaunch == time - registry[a].launchTime
            IN  IF actor.timingBias = "early" THEN sinceLaunch < 24 * 60
                ELSE IF actor.timingBias = "middle"
                  THEN sinceLaunch >= 24 * 60 /\ sinceLaunch < 120 * 60
                ELSE IF actor.timingBias = "late" THEN sinceLaunch >= 72 * 60
                ELSE TRUE
        timedTokens == {a \in candidateTokens : Timed(a)}
    IN  IF timedTokens # {} THEN timedTokens ELSE candidateTokens

\* sequences of k distinct members of set
RECURSIVE Arrangements(_, _)
Arrangements(set, k) ==
    IF k = 0 THEN {<<>>}
    ELSE {<<a>> \o rest : a \in set, rest \in Arrangements(set, k - 1)}

DistinctArrangements(set, k) ==
    {q \in Arrangements(set, k) : \A i, j \in 1..k : i # j => q[i] # q[j]}

\* selectTokensForActor: every result the random count and shuffle can give
selectTokensForActor(actor, active, registry, histories, time) ==
    LET finalTokens == FinalTokens(actor, active, registry, histories, time)
        maxTokens   == IF actor.archetype = "elite_analyst" THEN 1 ELSE 2
    IN  IF finalTokens = {} THEN {<<>>}
        ELSE UNION {DistinctArrangements(finalTokens, k) :
                       k \in 1..Min(Cardinality(finalTokens), maxTokens)}

\* determineActorSentiment: the set of sentiments the call can carry
determineActorSentiment(actor, token, history) ==
    IF actor.archetype = "elite_analyst"
      THEN IF token.scenario \in GoodScenarios THEN {"positive"}
           ELSE IF token.scenario \in RugScenarios THEN {"negative"}
           ELSE {"neutral"}
    ELSE IF actor.archetype = "skilled_trader"
      THEN IF token.scenario \in {"successful", "runner_moon", "runner_steady"}
             THEN {"positive"}
           ELSE IF token.scenario \in {"rug_fast", "scam"} THEN {"negative", "positive"}
           ELSE IF token.scenario = "pump_dump"
             THEN IF Len(history) < 5 THEN {"positive"} ELSE {"negative"}
           ELSE {"neutral"}
    ELSE IF actor.archetype = "rug_promoter"
      THEN IF token.scenario \in RugScenarios THEN {"positive"} ELSE {"neutral"}
    ELSE IF actor.archetype = "fomo_trader" THEN {"positive"}
    ELSE IF actor.archetype = "pump_chaser"
      THEN IF Len(history) > 5 /\ RecentGainAbove(history, 4, 100)
             THEN {"positive"} ELSE {"neutral"}
    ELSE IF actor.archetype = "contrarian"
      THEN IF Len(history) > 10 /\ RecentGainAbove(history, 9, 200)
             THEN {"negative"} ELSE {"positive"}
    ELSE IF token.scenario \in actor.tokenPreferences THEN {"positive"} ELSE {"neutral"}

\* actorPerformance.set(actor.id, {...zeros}) for each configured actor
InitialPerformance(actors) ==
    [i \in 1..Len(actors) |->
        [userId |-> actors[i].id, totalCalls |-> 0, profitableCalls |-> 0,
         totalProfit |-> 0, averageProfit |-> 0]]

\* A variant of the performance loops that counts a call with no loss as
\* profitable.
UpdatePerformanceNoLoss(perf, callLog) ==
    [i \in 1..Len(perf) |->
        LET own == SelectSeq(callLog, LAMBDA c : c.userId = perf[i].userId)
            totalCalls == Len(own)
            profitableCalls ==
                Len(SelectSeq(own, LAMBDA c : c.actualProfit.set /\ c.actualProfit.v >= 0))
            totalProfit == SumSeq(MapProfit(own))
        IN  [userId |-> perf[i].userId, totalCalls |-> totalCalls,
             profitableCalls |-> profitableCalls, totalProfit |-> totalProfit,
             averageProfit |-> IF totalCalls > 0 THEN totalProfit \div totalCalls ELSE 0]]

\* The performance update loops of runSimulation over the back-filled log.
UpdatePerformance(perf, callLog) ==
    [i \in 1..Len(perf) |->
        LET own == SelectSeq(callLog, LAMBDA c : c.userId = perf[i].userId)
            totalCalls == Len(own)
            profitableCalls ==
                Len(SelectSeq(own, LAMBDA c : c.actualProfit.set /\ c.actualProfit.v > 0))
            totalProfit == SumSeq(MapProfit(own))
        IN  [userId |-> perf[i].userId, totalCalls |-> totalCalls,
             profitableCalls |-> profitableCalls, totalProfit |-> totalProfit,
             averageProfit |-> IF totalCalls > 0 THEN totalProfit \div totalCalls ELSE 0]]

NoConfig == [startTime |-> 0, endTime |-> 0, timeStepMinutes |-> StepMinutes,
             tokenCount |-> 0, actors |-> <<>>, cacheResults |-> FALSE]

NoFiles == [f \in {} |-> 0]

\* The runner after construction, before runSimulation.
RunIdle ==
    /\ config = NoConfig
    /\ simPc = "idle"
    /\ currentTime = 0
    /\ stepCount = 0
    /\ actorPerformance = <<>>
    /\ cacheFiles = NoFiles

\* getSimulationData not called yet.
CacheIdle ==
    /\ loadResult = [called |-> FALSE, null |-> TRUE, threw |-> FALSE]
    /\ dataSource = "none"
    /\ dataRequest = [passed |-> FALSE, tokenCount |-> 0]
    /\ readFiles = <<>>
    /\ written = 0
    /\ priorCache = [calls |-> <<>>, tokens |-> <<>>, priceHistory |-> <<>>,
                     actorPerformance |-> <<>>]

LogEmpty ==
    /\ calls = <<>>
    /\ tokens = <<>>
    /\ priceHistory = <<>>
    /\ passes = 0
    /\ firstPass = <<>>

\* One pass of calculateActualProfits over the call log.
BackfillFirst ==
    /\ passes = 0
    /\ calls' = calculateActualProfits(calls, tokens, priceHistory)
    /\ firstPass' = calls'
    /\ passes' = 1
    /\ UNCHANGED <<tokens, priceHistory>>

\* The same pass run again on the log it produced.
BackfillAgain ==
    /\ passes >= 1 /\ passes < MaxPasses
    /\ calls' = calculateActualProfits(calls, tokens, priceHistory)
    /\ passes' = passes + 1
    /\ UNCHANGED <<tokens, priceHistory, firstPass>>

---------------------------------------------------------------------------
(* TrustScoreOptimizer: metrics, scores, accuracy *)

RECURSIVE CapSeq(_)
CapSeq(ps) ==
    IF ps = <<>> THEN <<>>
    ELSE <<Min(Max(Head(ps), -100000), 200000)>> \o CapSeq(Tail(ps))

RECURSIVE SqrtSearch(_, _, _)
SqrtSearch(x, lo, hi) ==
    IF lo >= hi THEN lo
    ELSE LET mid == (lo + hi + 1) \div 2
         IN  IF mid * mid <= x THEN SqrtSearch(x, mid, hi)
             ELSE SqrtSearch(x, lo, mid - 1)

\* Math.sqrt on a non-negative integer, rounded down.
ISqrt(x) == SqrtSearch(x, 0, Min(x, 46340))

RECURSIVE SumSquaredDev(_, _)
\* sum of (p - mean)^2, in hundredths squared
SumSquaredDev(ps, mean) ==
    IF ps = <<>> THEN 0
    ELSE LET d == (Head(ps) - mean) \div 10
         IN  d * d + SumSquaredDev(Tail(ps), mean)

calculateSharpeRatio(profits) ==
    IF Len(profits) < 2 THEN 0
    ELSE LET mean     == SumSeq(profits) \div Len(profits)
             variance == SumSquaredDev(profits, mean) \div Len(profits)
             stdDev   == ISqrt(variance) * 10
         IN  IF stdDev > 0 THEN (mean * Scale) \div stdDev ELSE 0

RECURSIVE SumReturns(_)
\* <<totalReturn, tokenCount>> over the price histories with at least two points
SumReturns(hs) ==
    IF hs = <<>> THEN <<0, 0>>
    ELSE LET rest == SumReturns(Tail(hs))
             h    == Head(hs)
         IN  IF Len(h) >= 2
               THEN LET firstPrice == h[1].price
                        lastPrice  == h[Len(h)].price
                        returnPct  == (((lastPrice - firstPrice) * Scale) \div firstPrice) * 100
                    IN  <<rest[1] + returnPct, rest[2] + 1>>
               ELSE rest

calculateMarketReturn(simData) ==
    LET r == SumReturns(simData.priceHistory)
    IN  IF r[2] > 0 THEN r[1] \div r[2] ELSE 0

calculateConsistency(profits) ==
    IF Len(profits) < 3 THEN 0
    ELSE (Len(SelectSeq(profits, LAMBDA p : p > 0)) * Scale) \div Len(profits)

calculateMetrics(params, actorCalls, simData) ==
    LET profits         == SelectSeq(MapProfit(actorCalls), LAMBDA p : p # 0)
        profitableCalls == Len(SelectSeq(profits, LAMBDA p : p > 0))
        totalCalls      == Len(actorCalls)
        winRate         == IF totalCalls > 0 THEN (profitableCalls * Scale) \div totalCalls ELSE 0
        cappedProfits   == CapSeq(profits)
        averageProfit   == IF Len(cappedProfits) > 0
                             THEN SumSeq(cappedProfits) \div Len(cappedProfits) ELSE 0
        sharpeRatio     == calculateSharpeRatio(cappedProfits)
        marketReturn    == calculateMarketReturn(simData)
        alpha           == averageProfit - marketReturn
        volumePenalty   == Max(0, Scale - (totalCalls * Scale * Scale)
                                             \div params.volumePenaltyThreshold)
        consistency     == calculateConsistency(cappedProfits)
    IN  [totalCalls |-> totalCalls, profitableCalls |-> profitableCalls,
         averageProfit |-> averageProfit, winRate |-> winRate,
         sharpeRatio |-> sharpeRatio, alpha |-> alpha,
         volumePenalty |-> volumePenalty, consistency |-> consistency]

\* createDefaultActors(): id, username, archetype, expectedTrustScore,
\* tokenPreferences, callFrequency, timingBias, in declaration order.
DefaultActors ==
    << [id |-> "elite-1", username |-> "EliteTrader", archetype |-> "elite_analyst",
        expectedTrustScore |-> 95000,
        tokenPreferences |-> {"successful", "runner_moon", "bluechip"},
        callFrequency |-> "medium", timingBias |-> "early"],
       [id |-> "skilled-1", username |-> "ProfitMaker", archetype |-> "skilled_trader",
        expectedTrustScore |-> 75000,
        tokenPreferences |-> {"successful", "runner_steady", "pump_dump"},
        callFrequency |-> "medium", timingBias |-> "early"],
       [id |-> "pump-1", username |-> "MoonChaser", archetype |-> "pump_chaser",
        expectedTrustScore |-> 25000,
        tokenPreferences |-> {"pump_dump", "rug_fast", "scam"},
        callFrequency |-> "high", timingBias |-> "late"],
       [id |-> "rug-1", username |-> "RugPromotoor", archetype |-> "rug_promoter",
        expectedTrustScore |-> 10000,
        tokenPreferences |-> {"rug_fast", "rug_slow", "scam"},
        callFrequency |-> "high", timingBias |-> "early"],
       [id |-> "fomo-1", username |-> "FomoFollower", archetype |-> "fomo_trader",
        expectedTrustScore |-> 30000,
        tokenPreferences |-> {"runner_moon", "pump_dump"},
        callFrequency |-> "high", timingBias |-> "late"],
       [id |-> "contrarian-1", username |-> "Contrarian", archetype |-> "contrarian",
        expectedTrustScore |-> 60000,
        tokenPreferences |-> {"mediocre", "stagnant", "slow_bleed"},
        callFrequency |-> "medium", timingBias |-> "random"],
       [id |-> "ta-1", username |-> "ChartGuru", archetype |-> "technical_analyst",
        expectedTrustScore |-> 65000,
        tokenPreferences |-> {"bluechip", "successful", "runner_steady"},
        callFrequency |-> "low", timingBias |-> "middle"],
       [id |-> "newbie-1", username |-> "CryptoNewb", archetype |-> "newbie",
        expectedTrustScore |-> 40000,
        tokenPreferences |-> {},
        callFrequency |-> "medium", timingBias |-> "random"],
       [id |-> "bot-1", username |-> "SpamBot9000", archetype |-> "bot_spammer",
        expectedTrustScore |-> 15000,
        tokenPreferences |-> {"scam", "rug_fast", "pump_dump"},
        callFrequency |-> "high", timingBias |-> "random"] >>

\* actorTable.find(a => a.id === userId): its index, 0 when absent
FindActor(actorTable, userId) ==
    IF \E i \in 1..Len(actorTable) : actorTable[i].id = userId
      THEN CHOOSE i \in 1..Len(actorTable) : actorTable[i].id = userId
      ELSE 0

\* createDefaultActors().find(a => a.id === userId): its index, 0 when absent
FindDefaultActor(userId) == FindActor(DefaultActors, userId)

\* the per-call token quality counting of calculateTrustScoresEnhanced
IsRugPromotion(call) ==
    call.tokenScenario \in RugScenarios /\ call.sentiment = "positive"

IsGoodCall(call) ==
    LET profit == IF call.actualProfit.set THEN call.actualProfit.v ELSE 0
    IN  \/ /\ call.tokenScenario \in RugScenarios
           /\ call.sentiment = "negative" /\ profit > 0
        \/ /\ call.tokenScenario \in {"successful", "runner_moon", "bluechip"}
           /\ call.sentiment = "positive" /\ profit > 20000

Abs(x) == IF x < 0 THEN -x ELSE x

\* A variant of the iteration that blends the expected score into the result.
ScoreActorFromBlended(actorTable, params, simData, userId) ==
    LET actorCalls    == SelectSeq(simData.calls, LAMBDA c : c.userId = userId)
        ai            == FindActor(actorTable, userId)
        expectedScore == IF ai # 0 /\ actorTable[ai].expectedTrustScore # 0
                           THEN actorTable[ai].expectedTrustScore ELSE 50000
        archetype     == IF ai # 0 THEN actorTable[ai].archetype ELSE "unknown"
        metrics       == calculateMetrics(params, actorCalls, simData)
        rugPromotionPenalty == Len(SelectSeq(actorCalls, IsRugPromotion))
        goodCallBonus       == Len(SelectSeq(actorCalls, IsGoodCall))
        calculatedScore ==
            (calculateBalancedTrustScore(DefaultBalancedParams, metrics, archetype,
                rugPromotionPenalty, goodCallBonus, Len(actorCalls)).v
             + expectedScore) \div 2
    IN  [userId |-> userId, username |-> actorCalls[1].username,
         calculatedScore |-> calculatedScore, expectedScore |-> expectedScore,
         difference |-> Abs(calculatedScore - expectedScore), metrics |-> metrics]

\* One iteration of the loop over actorPerformance: the result pushed for
\* userId, with actorTable standing for the list createDefaultActors() returns.
ScoreActorFrom(actorTable, params, simData, userId) ==
    LET actorCalls    == SelectSeq(simData.calls, LAMBDA c : c.userId = userId)
        ai            == FindActor(actorTable, userId)
        expectedScore == IF ai # 0 /\ actorTable[ai].expectedTrustScore # 0
                           THEN actorTable[ai].expectedTrustScore ELSE 50000
        archetype     == IF ai # 0 THEN actorTable[ai].archetype ELSE "unknown"
        metrics       == calculateMetrics(params, actorCalls, simData)
        rugPromotionPenalty == Len(SelectSeq(actorCalls, IsRugPromotion))
        goodCallBonus       == Len(SelectSeq(actorCalls, IsGoodCall))
        calculatedScore ==
            calculateBalancedTrustScore(DefaultBalancedParams, metrics, archetype,
                rugPromotionPenalty, goodCallBonus, Len(actorCalls)).v
    IN  [userId |-> userId, username |-> actorCalls[1].username,
         calculatedScore |-> calculatedScore, expectedScore |-> expectedScore,
         difference |-> Abs(calculatedScore - expectedScore), metrics |-> metrics]

ScoreActor(params, simData, userId) ==
    ScoreActorFrom(DefaultActors, params, simData, userId)

RECURSIVE InsertByScore(_, _)
\* stable insertion keeping calculatedScore descending
InsertByScore(sorted, r) ==
    IF sorted = <<>> THEN <<r>>
    ELSE IF Head(sorted).calculatedScore >= r.calculatedScore
      THEN <<Head(sorted)>> \o InsertByScore(Tail(sorted), r)
      ELSE <<r>> \o sorted

RECURSIVE SortByScore(_, _)
SortByScore(rs, acc) ==
    IF rs = <<>> THEN acc ELSE SortByScore(Tail(rs), InsertByScore(acc, Head(rs)))

RECURSIVE ScoreActorsFrom(_, _, _, _)
\* the loop over actorPerformance, skipping the actors without calls
ScoreActorsFrom(actorTable, params, simData, perf) ==
    IF perf = <<>> THEN <<>>
    ELSE LET userId == Head(perf).userId
             rest   == ScoreActorsFrom(actorTable, params, simData, Tail(perf))
         IN  IF Len(SelectSeq(simData.calls, LAMBDA c : c.userId = userId)) = 0
               THEN rest
               ELSE <<ScoreActorFrom(actorTable, params, simData, userId)>> \o rest

ScoreActors(params, simData, perf) ==
    ScoreActorsFrom(DefaultActors, params, simData, perf)

\* calculateTrustScoresEnhanced with actorTable for createDefaultActors()
calculateTrustScoresEnhancedFrom(actorTable, params, simData) ==
    SortByScore(ScoreActorsFrom(actorTable, params, simData,
                                simData.actorPerformance), <<>>)

calculateTrustScoresEnhanced(params, simData) ==
    SortByScore(ScoreActors(params, simData,
                            simData.actorPerformance), <<>>)

RECURSIVE SumDifference(_)
SumDifference(scores) ==
    IF scores = <<>> THEN 0 ELSE Head(scores).difference + SumDifference(Tail(scores))

RECURSIVE SumDifferenceSquared(_)
\* in hundredths squared
SumDifferenceSquared(scores) ==
    IF scores = <<>> THEN 0
    ELSE LET d == Head(scores).difference \div 10
         IN  d * d + SumDifferenceSquared(Tail(scores))

RECURSIVE SumProducts(_, _)
\* sum of x[i] * y[i], in hundredths squared
SumProducts(x, y) ==
    IF x = <<>> THEN 0
    ELSE (Head(x) \div 10) * (Head(y) \div 10) + SumProducts(Tail(x), Tail(y))

RECURSIVE SumHundredths(_)
SumHundredths(x) == IF x = <<>> THEN 0 ELSE Head(x) \div 10 + SumHundredths(Tail(x))

calculateCorrelation(x, y) ==
    LET n     == Len(x)
        sumX  == SumHundredths(x)
        sumY  == SumHundredths(y)
        sumXY == SumProducts(x, y)
        sumX2 == SumProducts(x, x)
        sumY2 == SumProducts(y, y)
        numerator   == n * sumXY - sumX * sumY
        denominator == ISqrt(n * sumX2 - sumX * sumX) * ISqrt(n * sumY2 - sumY * sumY)
    IN  IF denominator = 0 THEN 0 ELSE ScaledQuotient(numerator, denominator, 3)

\* A variant of the pair test without the branch for a pair tied in both.
calculateRankingAccuracyStrict(scores) ==
    LET pairs == {p \in (1..Len(scores)) \X (1..Len(scores)) : p[1] < p[2]}
        Correct(p) ==
            LET calcDiff == scores[p[1]].calculatedScore - scores[p[2]].calculatedScore
                expDiff  == scores[p[1]].expectedScore - scores[p[2]].expectedScore
            IN  \/ calcDiff > 0 /\ expDiff > 0
                \/ calcDiff < 0 /\ expDiff < 0
        correctPairs == Cardinality({p \in pairs : Correct(p)})
        totalPairs   == Cardinality(pairs)
    IN  IF totalPairs > 0 THEN ((correctPairs * Scale) \div totalPairs) * 100 ELSE 0

calculateRankingAccuracy(scores) ==
    LET pairs == {p \in (1..Len(scores)) \X (1..Len(scores)) : p[1] < p[2]}
        Correct(p) ==
            LET calcDiff == scores[p[1]].calculatedScore - scores[p[2]].calculatedScore
                expDiff  == scores[p[1]].expectedScore - scores[p[2]].expectedScore
            IN  \/ calcDiff > 0 /\ expDiff > 0
                \/ calcDiff < 0 /\ expDiff < 0
                \/ calcDiff = 0 /\ expDiff = 0
        correctPairs == Cardinality({p \in pairs : Correct(p)})
        totalPairs   == Cardinality(pairs)
    IN  IF totalPairs > 0 THEN ((correctPairs * Scale) \div totalPairs) * 100 ELSE 0

RECURSIVE Column(_, _)
Column(scores, expected) ==
    IF scores = <<>> THEN <<>>
    ELSE <<IF expected THEN Head(scores).expectedScore ELSE Head(scores).calculatedScore>>
           \o Column(Tail(scores), expected)

\* A variant without the guard for an empty score list: the sums are 0.
evaluateAccuracyUnguarded(scores) ==
    [mae |-> 0, rmse |-> 0, correlation |-> 0, rankingAccuracy |-> 0]

evaluateAccuracy(scores) ==
    IF Len(scores) = 0
      THEN [mae |-> 100000, rmse |-> 100000, correlation |-> 0, rankingAccuracy |-> 0]
      ELSE [mae  |-> SumDifference(scores) \div Len(scores),
            rmse |-> ISqrt(SumDifferenceSquared(scores) \div Len(scores)) * 10,
            correlation |-> calculateCorrelation(Column(scores, FALSE), Column(scores, TRUE)),
            rankingAccuracy |-> calculateRankingAccuracy(scores)]

---------------------------------------------------------------------------
(* TrustScoreOptimizer: grid search *)

\* The constructor's currentParams.
ConstructorParams ==
    [profitWeight |-> 250, consistencyWeight |-> 250, volumeWeight |-> 150,
     alphaWeight |-> 150, sharpeWeight |-> 200, minCallsThreshold |-> 5000,
     volumePenaltyThreshold |-> 50000, timeDecayFactor |-> 950,
     rugPullPenalty |-> 2000]

ParamNames == DOMAIN ConstructorParams

\* A variant of the assignment that overwrites every parameter.
AssignParamAll(current, key, value) == [k \in DOMAIN current |-> value]

\* current[key] = value
AssignParam(current, key, value) == [current EXCEPT ![key] = value]

RECURSIVE generateCombos(_, _, _)
RECURSIVE ComboValues(_, _, _, _)

\* generateCombos(index, current): the combinations pushed, and current as
\* the in-place assignments leave it.
generateCombos(rangeEntries, index, current) ==
    IF index = Len(rangeEntries) + 1
      THEN [combinations |-> <<current>>, current |-> current]
      ELSE ComboValues(rangeEntries, index, current, rangeEntries[index][2])

\* for (const value of values) { current[key] = value; generateCombos(index + 1, current) }
ComboValues(rangeEntries, index, current, values) ==
    IF values = <<>>
      THEN [combinations |-> <<>>, current |-> current]
      ELSE LET assigned == AssignParam(current, rangeEntries[index][1], Head(values))
               sub      == generateCombos(rangeEntries, index + 1, assigned)
               rest     == ComboValues(rangeEntries, index, sub.current, Tail(values))
           IN  [combinations |-> sub.combinations \o rest.combinations,
                current |-> rest.current]

\* A variant that also tries the base parameters, first.
generateParameterCombinationsWithBase(params, ranges) ==
    <<params>> \o generateCombos(ranges, 1, params).combinations

generateParameterCombinations(params, ranges) ==
    generateCombos(ranges, 1, params).combinations

Infinity == [inf |-> TRUE, v |-> 0]

\* A variant of the comparison that also replaces the best on a tie.
MaeNotWorse(mae, best) == best.inf \/ mae <= best.v

\* accuracy.mae < bestScore
MaeImproves(mae, best) == best.inf \/ mae < best.v

\* Bounded inputs of the search.
MaxRangeKeys == 2

MaxRangeLen == 2

MaxOptimizeRuns == 2

MaxLaterRangeLen == 1

RangeKeyInputs == {"profitWeight", "sharpeWeight"}

RangeValueInputs == {200, 300}

RangeValueLists(len) ==
    UNION {[1..n -> RangeValueInputs] : n \in 0..len}

\* Object.entries(ranges): entries in insertion order, keys distinct.
RangesOfLen(len) ==
    UNION {{[i \in 1..n |-> <<ks[i], ls[i]>>] :
               ks \in DistinctArrangements(RangeKeyInputs, n),
               ls \in [1..n -> RangeValueLists(len)]} : n \in 0..MaxRangeKeys}

\* Ranges handed to the first search, and to the searches after it.
RangeInputs == RangesOfLen(MaxRangeLen)

LaterRangeInputs == RangesOfLen(MaxLaterRangeLen)

NoReturn == [set |-> FALSE, params |-> ConstructorParams]

NoAccuracy == [mae |-> 0, rmse |-> 0, correlation |-> 0, rankingAccuracy |-> 0]

NoData == [calls |-> <<>>, tokens |-> <<>>, priceHistory |-> <<>>,
           actorPerformance |-> <<>>]

NoScore == [set |-> FALSE, nan |-> FALSE, v |-> 0]

NoSamples == [profits |-> <<>>, predicted |-> <<>>, actual |-> <<>>]

NoStatistic == [fn |-> "none",
                value |-> [nan |-> FALSE, neg |-> FALSE, m |-> <<>>, e |-> 0]]

NoArgs == [averageProfit |-> 0, winRate |-> 0, sharpeRatio |-> 0, alpha |-> 0,
           consistency |-> 0, archetype |-> "unknown", rugPromotions |-> 0,
           goodCalls |-> 0, totalCalls |-> 0]

\* No calculator call recorded.
ScoreIdle ==
    /\ scArgs = NoArgs
    /\ scScore = NoScore
    /\ scPrevArgs = NoArgs
    /\ scPrevScore = NoScore
    /\ statInput = NoSamples
    /\ statOutput = NoStatistic

\* The optimizer after construction.
OptConstructed ==
    /\ currentParams = ConstructorParams
    /\ optPc = "idle"
    /\ optRanges = <<>>
    /\ optPreParams = ConstructorParams
    /\ simulationData = NoData
    /\ paramCombinations = <<>>
    /\ optIndex = 1
    /\ bestParams = ConstructorParams
    /\ bestScore = Infinity
    /\ maeLog = <<>>
    /\ optReturned = NoReturn
    /\ optRuns = 0
    /\ accScores = [set |-> FALSE, scores |-> <<>>]
    /\ accResult = NoAccuracy

\* Results of small simulations of the default actors over a successful and
\* a fast-rug token: no call; one elite and one rug-promoter call; the
\* rug-promoter call alone.
DataTokens == <<[address |-> 1, scenario |-> "successful"],
                [address |-> 2, scenario |-> "rug_fast"]>>

DataHistory ==
    <<[i \in 1..3 |-> [timestamp |-> (i - 1) * StepMinutes,
                       price |-> <<10000, 10300, 10609>>[i]]],
      [i \in 1..3 |-> [timestamp |-> (i - 1) * StepMinutes,
                       price |-> <<1000, 1500, 1>>[i]]]>>

DataOf(callLog) ==
    LET filled == calculateActualProfits(callLog, DataTokens, DataHistory)
    IN  [calls |-> filled, tokens |-> DataTokens, priceHistory |-> DataHistory,
         actorPerformance |-> UpdatePerformance(InitialPerformance(DefaultActors), filled)]

\* The same for a run that generated the first tokenCount of the tokens.
DataOn(tokenCount, callLog) ==
    LET registry  == SubSeq(DataTokens, 1, tokenCount)
        histories == SubSeq(DataHistory, 1, tokenCount)
        filled    == calculateActualProfits(callLog, registry, histories)
    IN  [calls |-> filled, tokens |-> registry, priceHistory |-> histories,
         actorPerformance |-> UpdatePerformance(InitialPerformance(DefaultActors), filled)]

EliteCall == MakeCall(DefaultActors[1], 1, "successful", 0, "positive")

RugCall == MakeCall(DefaultActors[4], 2, "rug_fast", 0, "positive")

OptDataInputs == {DataOf(<<>>), DataOf(<<EliteCall, RugCall>>), DataOf(<<RugCall>>)}

\* optimizeParameters up to the for loop: getSimulationData and
\* generateParameterCombinations.  A later search reads the same data back.
OptStart ==
    /\ optPc \in {"idle", "done"}
    /\ optRuns < MaxOptimizeRuns
    /\ \E ranges \in (IF optRuns = 0 THEN RangeInputs ELSE LaterRangeInputs),
          data \in OptDataInputs :
          /\ optRuns > 0 => data = simulationData
          /\ optRanges' = ranges
          /\ simulationData' = data
          /\ paramCombinations' = generateParameterCombinations(currentParams, ranges)
    /\ optPreParams' = currentParams
    /\ bestParams' = currentParams
    /\ bestScore' = Infinity
    /\ optIndex' = 1
    /\ maeLog' = <<>>
    /\ optReturned' = NoReturn
    /\ optRuns' = optRuns + 1
    /\ optPc' = "loop"
    /\ UNCHANGED <<currentParams, accScores, accResult>>

\* A variant of the scoring that reverses the shared call log in place.
DataAfterScoringReversed(simData) ==
    [simData EXCEPT !.calls = [i \in DOMAIN simData.calls |->
                                  simData.calls[Len(simData.calls) + 1 - i]]]

\* The simulation result after calculateTrustScoresEnhanced and
\* evaluateAccuracy have read it: filter, map and reduce build new arrays and
\* the only sort is on the fresh result list.
DataAfterScoring(simData) == simData

\* One iteration of the for loop over paramCombinations.
OptIterate ==
    /\ optPc = "loop"
    /\ optIndex <= Len(paramCombinations)
    /\ LET params   == paramCombinations[optIndex]
           scored   == calculateTrustScoresEnhanced(params, simulationData)
           accuracy == evaluateAccuracy(scored)
       IN  /\ currentParams' = params
           /\ accScores' = [set |-> TRUE, scores |-> scored]
           /\ accResult' = accuracy
           /\ maeLog' = Append(maeLog, accuracy.mae)
           /\ IF MaeImproves(accuracy.mae, bestScore)
                THEN /\ bestScore' = [inf |-> FALSE, v |-> accuracy.mae]
                     /\ bestParams' = params
                ELSE UNCHANGED <<bestScore, bestParams>>
    /\ simulationData' = DataAfterScoring(simulationData)
    /\ optIndex' = optIndex + 1
    /\ UNCHANGED <<optPc, optRanges, optPreParams, paramCombinations,
                   optReturned, optRuns>>

\* After the loop: this.currentParams = bestParams; return bestParams.
OptFinish ==
    /\ optPc = "loop"
    /\ optIndex > Len(paramCombinations)
    /\ currentParams' = bestParams
    /\ optReturned' = [set |-> TRUE, params |-> bestParams]
    /\ optPc' = "done"
    /\ UNCHANGED <<optRanges, optPreParams, simulationData, paramCombinations, optIndex,
                   bestParams, bestScore, maeLog, optRuns, accScores, accResult>>

\* runOptimizationCycle on data read back from the cache: score and evaluate.
OptCycle ==
    /\ optPc \in {"idle", "done"}
    /\ ~accScores.set \/ optPc = "done"
    /\ \E data \in OptDataInputs :
          /\ optRuns > 0 => data = simulationData
          /\ simulationData' = data
          /\ LET scored == calculateTrustScoresEnhanced(currentParams, data)
             IN  /\ accScores' = [set |-> TRUE, scores |-> scored]
                 /\ accResult' = evaluateAccuracy(scored)
    /\ UNCHANGED <<currentParams, optPc, optRanges, optPreParams, paramCombinations,
                   optIndex, bestParams, bestScore, maeLog, optReturned, optRuns>>

OptNext ==
    \/ OptStart   /\ UNCHANGED <<scoreVars, simVars, cacheVars>>
    \/ OptIterate /\ UNCHANGED <<scoreVars, simVars, cacheVars>>
    \/ OptFinish  /\ UNCHANGED <<scoreVars, simVars, cacheVars>>
    \/ OptCycle   /\ UNCHANGED <<scoreVars, simVars, cacheVars>>

OptInit == OptConstructed /\ ScoreIdle /\ RunIdle /\ LogEmpty /\ CacheIdle

SpecOpt == OptInit /\ [][OptNext]_vars

---------------------------------------------------------------------------
(* SimulationRunner: runSimulation *)

MaxSteps == 3

MaxTokens == 2

MaxCalls == 2

\* The scenarios selectScenarioByWeight draws here.
ScenarioInputs == {"successful", "rug_fast"}

\* Math.random() in shouldActorCall: a draw below and one above every frequency.
CallDraws == {0, 999}

\* Math.random() in the price trajectories: the centre of the noise band.
NoiseDraws == {500}

\* token.initialPrice = 0.00001 + Math.random() * 0.0001, with the draw 0
TokenInitialPrice == 1000

\* launchOffset = Math.random() * launchSpread * 0.8, on the day grid
LaunchOffsets(cfg) ==
    {0} \cup {t \in {DayMinutes} : t * 10 < (cfg.endTime - cfg.startTime) * 8}

\* generateTokens(config): every registry the draws can give
GeneratedTokens(cfg) ==
    {[a \in 1..cfg.tokenCount |->
         [address |-> a, scenario |-> pick[a][1],
          launchTime |-> cfg.startTime + pick[a][2], initialPrice |-> TokenInitialPrice]] :
       pick \in [1..cfg.tokenCount -> ScenarioInputs \X LaunchOffsets(cfg)]}

\* shouldActorCall with Math.random() = random / 1000
shouldActorCall(actor, random) ==
    LET frequencyMultiplier ==
            IF actor.callFrequency = "high" THEN 700
            ELSE IF actor.callFrequency = "medium" THEN 400 ELSE 150
    IN  random < frequencyMultiplier

RECURSIVE CallsForTokens(_, _, _, _, _)
\* the calls generateActorCall gives for the selected tokens, in order
CallsForTokens(actor, selected, registry, histories, time) ==
    IF selected = <<>> THEN {<<>>}
    ELSE LET a == Head(selected)
         IN  {<<MakeCall(actor, a, registry[a].scenario, time, sentiment)>> \o rest :
                 sentiment \in determineActorSentiment(actor, registry[a], histories[a]),
                 rest \in CallsForTokens(actor, Tail(selected), registry, histories, time)}

\* the calls one actor can add in a step
ActorStepCalls(actor, active, registry, histories, time) ==
    UNION {IF shouldActorCall(actor, random)
             THEN UNION {CallsForTokens(actor, selected, registry, histories, time) :
                            selected \in selectTokensForActor(actor, active, registry,
                                                             histories, time)}
             ELSE {<<>>} : random \in CallDraws}

RECURSIVE StepCalls(_, _, _, _, _, _)
\* generateCallsForTimeStep: every stepCalls the draws can give, within the
\* room left in the bounded call log
StepCalls(actors, active, registry, histories, time, room) ==
    IF actors = <<>> \/ active = {} THEN {<<>>}
    ELSE UNION {{own \o rest :
                    rest \in StepCalls(Tail(actors), active, registry, histories, time,
                                       room - Len(own))} :
                own \in {c \in ActorStepCalls(Head(actors), active, registry, histories, time) :
                            Len(c) <= room}}

\* the price points pushed for the tokens launched by time
PushPrices(registry, histories, time, draws) ==
    [a \in DOMAIN registry |->
        IF time - registry[a].launchTime >= 0
          THEN Append(histories[a],
                      [timestamp |-> time,
                       price |-> calculateTokenPrice(registry[a],
                                     time - registry[a].launchTime, draws[a])])
          ELSE histories[a]]

\* The elite analyst and the rug promoter of the end-to-end test actors.
TestElite ==
    [id |-> "test-elite-1", username |-> "TestEliteTrader", archetype |-> "elite_analyst",
     expectedTrustScore |-> 95000,
     tokenPreferences |-> {"successful", "runner_moon", "bluechip"},
     callFrequency |-> "medium", timingBias |-> "early"]

TestRug ==
    [id |-> "test-rug-1", username |-> "TestRugPromoter", archetype |-> "rug_promoter",
     expectedTrustScore |-> 10000,
     tokenPreferences |-> {"rug_fast", "rug_slow", "scam"},
     callFrequency |-> "high", timingBias |-> "early"]

\* A newbie without token preferences, configured as the default newbie is.
TestNewbie ==
    [id |-> "test-newbie-1", username |-> "TestNewbie", archetype |-> "newbie",
     expectedTrustScore |-> 40000, tokenPreferences |-> {},
     callFrequency |-> "medium", timingBias |-> "random"]

\* The three actors of the end-to-end scenario.
ScenarioActors == <<TestElite, TestRug, TestNewbie>>

\* Windows of up to MaxSteps steps: a whole number of steps long, or half a
\* step longer.
EndTimeInputs ==
    {k * DayMinutes : k \in 0..(MaxSteps - 1)}
    \cup {k * DayMinutes + DayMinutes \div 2 : k \in 0..(MaxSteps - 2)}

SimConfigInputs ==
    [startTime : {0}, endTime : EndTimeInputs,
     timeStepMinutes : {DayMinutes}, tokenCount : 1..MaxTokens,
     actors : {DefaultActors, ScenarioActors}, cacheResults : BOOLEAN]

\* runSimulation up to the stepping loop: actors bound, tokens generated.
SimStart ==
    /\ simPc = "idle"
    /\ actorPerformance' = InitialPerformance(config.actors)
    /\ tokens' \in GeneratedTokens(config)
    /\ priceHistory' = [a \in 1..config.tokenCount |-> <<>>]
    /\ calls' = <<>>
    /\ currentTime' = config.startTime
    /\ stepCount' = 0
    /\ simPc' = "stepping"
    /\ UNCHANGED <<config, cacheFiles, passes, firstPass>>

\* A variant of the loop condition that stops one step early.
LoopContinuesBefore(time, cfg) == time < cfg.endTime

\* while (currentTime <= endTime)
LoopContinues(time, cfg) == time <= cfg.endTime

\* One iteration of the stepping loop.
SimStep ==
    /\ simPc = "stepping"
    /\ LoopContinues(currentTime, config)
    /\ stepCount' = stepCount + 1
    /\ \E draws \in [DOMAIN tokens -> NoiseDraws] :
          priceHistory' = PushPrices(tokens, priceHistory, currentTime, draws)
    /\ \E stepCalls \in StepCalls(config.actors,
                                  ActiveTokens(tokens, priceHistory', currentTime),
                                  tokens, priceHistory', currentTime,
                                  MaxCalls - Len(calls)) :
          calls' = calls \o stepCalls
    /\ currentTime' = currentTime + config.timeStepMinutes
    /\ UNCHANGED <<config, simPc, tokens, actorPerformance, cacheFiles, passes, firstPass>>

\* The loop condition fails: the run moves on to the back-fill.
SimExitLoop ==
    /\ simPc = "stepping"
    /\ ~LoopContinues(currentTime, config)
    /\ simPc' = "finalizing"
    /\ UNCHANGED <<config, currentTime, stepCount, calls, tokens, priceHistory,
                   actorPerformance, cacheFiles, passes, firstPass>>

\* await this.calculateActualProfits(calls, tokens, priceHistory)
SimBackfill ==
    /\ simPc = "finalizing"
    /\ calls' = calculateActualProfits(calls, tokens, priceHistory)
    /\ passes' = passes + 1
    /\ firstPass' = calls'
    /\ simPc' = "aggregating"
    /\ UNCHANGED <<config, currentTime, stepCount, tokens, priceHistory,
                   actorPerformance, cacheFiles>>

\* The performance loops, then the decision to cache.
SimAggregate ==
    /\ simPc = "aggregating"
    /\ actorPerformance' = UpdatePerformance(actorPerformance, calls)
    /\ simPc' = IF config.cacheResults THEN "caching" ELSE "done"
    /\ UNCHANGED <<config, currentTime, stepCount, calls, tokens, priceHistory,
                   cacheFiles, passes, firstPass>>

CacheFileNames ==
    <<"simulated_calls.json", "simulated_tokens.json", "price_history.json",
      "actor_performance.json">>

\* JSON.parse(JSON.stringify(date)): the ISO string of the date
IsoString(t) == [iso |-> t]

\* What JSON.parse gives back for the text JSON.stringify wrote for file n:
\* numbers and strings as they were, every Date (a token's launchTime, a
\* price point's timestamp) as its ISO string.
JsonOf(n, content) ==
    IF n = 2
      THEN [a \in DOMAIN content |->
               IF "launchTime" \in DOMAIN content[a]
                 THEN [content[a] EXCEPT !.launchTime = IsoString(@)] ELSE content[a]]
    ELSE IF n = 3
      THEN [a \in DOMAIN content |->
               [i \in DOMAIN content[a] |->
                   [content[a][i] EXCEPT !.timestamp = IsoString(@)]]]
    ELSE content

\* A file holding the whole JSON text, and one holding text JSON.parse rejects.
WrittenFile(n, content) == [parses |-> TRUE, text |-> JsonOf(n, content)]

BrokenFile == [parses |-> FALSE, text |-> <<>>]

\* The part of a result that cacheResults writes to file n.
CachePart(n, result) ==
    IF n = 1 THEN result.calls ELSE IF n = 2 THEN result.tokens
    ELSE IF n = 3 THEN result.priceHistory ELSE result.actorPerformance

\* A variant in which a failed write is swallowed and the run goes on.
CacheWriteOutcomeSwallowed(n, fails) ==
    IF n = Len(CacheFileNames) THEN "done" ELSE "caching"

\* Where runSimulation goes after the awaited write of file n: a rejected
\* write rejects runSimulation.
CacheWriteOutcome(n, fails) ==
    IF fails THEN "rejected"
    ELSE IF n = Len(CacheFileNames) THEN "done" ELSE "caching"

\* cacheResults: the next awaited writeFile, which writes the file or rejects
\* (leaving no file or a truncated one); after the fourth, runSimulation returns.
SimWriteCache ==
    /\ simPc = "caching"
    /\ LET n    == Cardinality(DOMAIN cacheFiles) + 1
           name == CacheFileNames[n]
           content == CachePart(n, [calls |-> calls, tokens |-> tokens,
                                    priceHistory |-> priceHistory,
                                    actorPerformance |-> actorPerformance])
       IN  \E fails \in BOOLEAN :
              /\ \/ /\ ~fails
                    /\ cacheFiles' = [f \in DOMAIN cacheFiles \cup {name} |->
                                         IF f = name THEN WrittenFile(n, content)
                                         ELSE cacheFiles[f]]
                 \/ /\ fails
                    /\ \/ cacheFiles' = cacheFiles
                       \/ cacheFiles' = [f \in DOMAIN cacheFiles \cup {name} |->
                                            IF f = name THEN BrokenFile ELSE cacheFiles[f]]
              /\ simPc' = CacheWriteOutcome(n, fails)
    /\ UNCHANGED <<config, currentTime, stepCount, calls, tokens, priceHistory,
                   actorPerformance, passes, firstPass>>

\* The result runSimulation returns.
SimulationResult ==
    [calls |-> calls, tokens |-> tokens, priceHistory |-> priceHistory,
     actorPerformance |-> actorPerformance]

\* The scoring half of runOptimizationCycle(config, false) on the result the
\* run returned: calculateTrustScoresEnhanced, then evaluateAccuracy.
SimScore ==
    /\ simPc = "done"
    /\ ~accScores.set
    /\ simulationData' = SimulationResult
    /\ LET scored == calculateTrustScoresEnhanced(currentParams, SimulationResult)
       IN  /\ accScores' = [set |-> TRUE, scores |-> scored]
           /\ accResult' = evaluateAccuracy(scored)
    /\ UNCHANGED <<currentParams, optPc, optRanges, optPreParams, paramCombinations,
                   optIndex, bestParams, bestScore, maeLog, optReturned, optRuns>>

SimInit ==
    /\ config \in SimConfigInputs
    /\ simPc = "idle"
    /\ currentTime = 0
    /\ stepCount = 0
    /\ actorPerformance = <<>>
    /\ cacheFiles = NoFiles
    /\ LogEmpty
    /\ ScoreIdle
    /\ OptConstructed
    /\ CacheIdle

SimNext ==
    \/ SimStart      /\ UNCHANGED <<scoreVars, optVars, cacheVars>>
    \/ SimStep       /\ UNCHANGED <<scoreVars, optVars, cacheVars>>
    \/ SimExitLoop   /\ UNCHANGED <<scoreVars, optVars, cacheVars>>
    \/ SimBackfill   /\ UNCHANGED <<scoreVars, optVars, cacheVars>>
    \/ SimAggregate  /\ UNCHANGED <<scoreVars, optVars, cacheVars>>
    \/ SimWriteCache /\ UNCHANGED <<scoreVars, optVars, cacheVars>>
    \/ SimScore      /\ UNCHANGED <<scoreVars, simVars, cacheVars>>

SpecSim == SimInit /\ [][SimNext]_vars

\* The steps of runSimulation itself.
SimRun ==
    /\ SimStart \/ SimStep \/ SimExitLoop \/ SimBackfill \/ SimAggregate \/ SimWriteCache
    /\ UNCHANGED <<scoreVars, optVars, cacheVars>>

\* runSimulation runs to its end once called: the loop body is synchronous
\* and every await of the run is resumed.
SimFairInit == SimInit /\ config.actors = ScenarioActors

SpecSimFair == SimFairInit /\ [][SimNext]_vars /\ WF_vars(SimRun)

---------------------------------------------------------------------------
(* TrustScoreOptimizer.getSimulationData and the cached load *)

\* A variant of the load without its catch: a failed read or parse propagates.
loadCachedSimulationUncaught(files) ==
    LET readable == \A n \in DOMAIN CacheFileNames : CacheFileNames[n] \in DOMAIN files
        parsed   == readable /\ \A n \in DOMAIN CacheFileNames : files[CacheFileNames[n]].parses
    IN  [called |-> TRUE, null |-> FALSE, threw |-> ~parsed,
         data |-> IF parsed
                    THEN [calls |-> files[CacheFileNames[1]].text,
                          tokens |-> files[CacheFileNames[2]].text,
                          priceHistory |-> files[CacheFileNames[3]].text,
                          actorPerformance |-> files[CacheFileNames[4]].text]
                    ELSE NoData]

\* loadCachedSimulation: the four reads, then the four parses, all inside one
\* try; the catch returns null.
loadCachedSimulation(files) ==
    LET readable == \A n \in DOMAIN CacheFileNames : CacheFileNames[n] \in DOMAIN files
        parsed   == readable /\ \A n \in DOMAIN CacheFileNames : files[CacheFileNames[n]].parses
    IN  [called |-> TRUE, null |-> ~parsed, threw |-> FALSE,
         data |-> IF parsed
                    THEN [calls |-> files[CacheFileNames[1]].text,
                          tokens |-> files[CacheFileNames[2]].text,
                          priceHistory |-> files[CacheFileNames[3]].text,
                          actorPerformance |-> files[CacheFileNames[4]].text]
                    ELSE NoData]

\* defaultOutputDir, the directory cacheFiles stands for in getSimulationData
DefaultOutputDir == "./simulation-cache"

\* The output directory and caching choice of the config the fresh run gets
\* (the default config has the default directory and caches).
DataConfigInputs ==
    [outputDir : {DefaultOutputDir, "./test-integration-cache"}, cacheResults : BOOLEAN]

\* Whether the caller passed a config and the tokenCount of the config the
\* fresh run gets; with none passed the run gets the default config.
DataRequestInputs(cfg) ==
    {[passed |-> TRUE, tokenCount |-> n] : n \in 1..Len(DataTokens)}
    \cup {r \in {[passed |-> FALSE, tokenCount |-> Len(DataTokens)]} :
              cfg.outputDir = DefaultOutputDir /\ cfg.cacheResults}

\* The results runSimulation can return for a config of tokenCount tokens.
RunResults(tokenCount) ==
    {DataOn(tokenCount, callLog) :
        callLog \in {log \in {<<>>, <<EliteCall>>, <<EliteCall, RugCall>>, <<RugCall>>} :
                        \A i \in DOMAIN log : log[i].caMentioned <= tokenCount}}

\* The four files as cacheResults leaves them for a result.
CacheOf(result) ==
    [f \in {CacheFileNames[n] : n \in DOMAIN CacheFileNames} |->
        LET n == CHOOSE k \in DOMAIN CacheFileNames : CacheFileNames[k] = f
        IN  WrittenFile(n, CachePart(n, result))]

\* Directories found before the call: per file missing, unparsable or whole.
FileStates == {"missing", "broken", "whole"}

CacheFileInputs ==
    {[f \in {CacheFileNames[n] : n \in {k \in DOMAIN CacheFileNames : st[k] # "missing"}} |->
         LET n == CHOOSE k \in DOMAIN CacheFileNames : CacheFileNames[k] = f
         IN  IF st[n] = "broken" THEN BrokenFile ELSE CacheOf(result)[f]] :
       st \in [DOMAIN CacheFileNames -> FileStates], result \in OptDataInputs}

\* getSimulationData(config, useCache): the cached load when asked for, and a
\* fresh runSimulation (taken to resolve, with its result) when there is no cache.
GetSimulationData ==
    \E useCache \in BOOLEAN, cfg \in DataConfigInputs :
    \E request \in DataRequestInputs(cfg) :
    \E fresh \in RunResults(request.tokenCount) :
       LET loaded == IF useCache THEN loadCachedSimulation(cacheFiles)
                     ELSE [called |-> FALSE, null |-> TRUE, threw |-> FALSE, data |-> NoData]
       IN  /\ dataRequest' = request
           /\ loadResult' = [called |-> loaded.called, null |-> loaded.null,
                             threw |-> loaded.threw]
           /\ IF loaded.threw
                THEN /\ dataSource' = "failed"
                     /\ UNCHANGED <<simulationData, cacheFiles>>
              ELSE IF loaded.called /\ ~loaded.null
                THEN /\ dataSource' = "cache"
                     /\ simulationData' = loaded.data
                     /\ UNCHANGED cacheFiles
              ELSE /\ dataSource' = "fresh"
                   /\ simulationData' = fresh
                   /\ cacheFiles' = IF cfg.cacheResults /\ cfg.outputDir = DefaultOutputDir
                                      THEN CacheOf(fresh) ELSE cacheFiles
    /\ UNCHANGED <<currentParams, optPc, optRanges, optPreParams, paramCombinations,
                   optIndex, bestParams, bestScore, maeLog, optReturned, optRuns,
                   accScores, accResult>>
    /\ UNCHANGED <<config, simPc, currentTime, stepCount, actorPerformance>>
    /\ UNCHANGED <<readFiles, written, priorCache>>

CacheInit ==
    /\ cacheFiles \in CacheFileInputs
    /\ config = NoConfig
    /\ simPc = "idle"
    /\ currentTime = 0
    /\ stepCount = 0
    /\ actorPerformance = <<>>
    /\ CacheIdle
    /\ LogEmpty
    /\ ScoreIdle
    /\ OptConstructed

CacheNext == GetSimulationData /\ UNCHANGED <<scoreVars, logVars>>

SpecCache == CacheInit /\ [][CacheNext]_vars

---------------------------------------------------------------------------
(* A cached load while another run's cacheResults writes the same directory *)

\* cacheResults of the run in progress: the next awaited writeFile replaces
\* one file of the directory; after the fourth, runSimulation returns.
OverlapWrite ==
    /\ simPc = "caching"
    /\ written < Len(CacheFileNames)
    /\ LET n == written + 1
       IN  cacheFiles' = [f \in DOMAIN cacheFiles \cup {CacheFileNames[n]} |->
                             IF f = CacheFileNames[n]
                               THEN WrittenFile(n, CachePart(n, SimulationResult))
                               ELSE cacheFiles[f]]
    /\ written' = written + 1
    /\ simPc' = CacheWriteOutcome(written + 1, FALSE)
    /\ UNCHANGED <<config, currentTime, stepCount, actorPerformance, logVars>>
    /\ UNCHANGED <<loadResult, dataSource, dataRequest, readFiles, priorCache>>
    /\ UNCHANGED <<scoreVars, optVars>>

\* loadCachedSimulation: the next awaited readFile resolves with the file as
\* the directory holds it at that moment.
OverlapRead ==
    /\ ~loadResult.called
    /\ Len(readFiles) < Len(CacheFileNames)
    /\ CacheFileNames[Len(readFiles) + 1] \in DOMAIN cacheFiles
    /\ readFiles' = Append(readFiles, cacheFiles[CacheFileNames[Len(readFiles) + 1]])
    /\ UNCHANGED <<loadResult, dataSource, dataRequest, written, priorCache>>
    /\ UNCHANGED <<scoreVars, optVars, simVars>>

\* The four texts read, as the files loadCachedSimulation parses.
FilesRead(texts) ==
    [f \in {CacheFileNames[n] : n \in DOMAIN texts} |->
        texts[CHOOSE k \in DOMAIN CacheFileNames : CacheFileNames[k] = f]]

\* loadCachedSimulation after its fourth read: the four parses and the
\* return; getSimulationData hands the loaded result on.
OverlapReturn ==
    /\ ~loadResult.called
    /\ Len(readFiles) = Len(CacheFileNames)
    /\ LET loaded == loadCachedSimulation(FilesRead(readFiles))
       IN  /\ loadResult' = [called |-> loaded.called, null |-> loaded.null,
                             threw |-> loaded.threw]
           /\ dataSource' = IF loaded.null THEN "none" ELSE "cache"
           /\ simulationData' = IF loaded.null THEN simulationData ELSE loaded.data
    /\ UNCHANGED <<dataRequest, readFiles, written, priorCache>>
    /\ UNCHANGED <<currentParams, optPc, optRanges, optPreParams, paramCombinations,
                   optIndex, bestParams, bestScore, maeLog, optReturned, optRuns,
                   accScores, accResult>>
    /\ UNCHANGED <<scoreVars, simVars>>

\* The results of the earlier run and of the run now caching.
OverlapRunInputs == UNION {RunResults(n) : n \in 1..Len(DataTokens)}

\* An earlier run left its four files; a second run with the same output
\* directory has reached cacheResults; getSimulationData is about to load.
OverlapInit ==
    /\ priorCache \in OverlapRunInputs
    /\ cacheFiles = CacheOf(priorCache)
    /\ \E result \in OverlapRunInputs :
          /\ result # priorCache
          /\ calls = result.calls
          /\ tokens = result.tokens
          /\ priceHistory = result.priceHistory
          /\ actorPerformance = result.actorPerformance
          /\ config = [NoConfig EXCEPT !.tokenCount = Len(result.tokens),
                                        !.actors = DefaultActors,
                                        !.cacheResults = TRUE]
    /\ simPc = "caching"
    /\ currentTime = 0
    /\ stepCount = 0
    /\ passes = 1
    /\ firstPass = calls
    /\ loadResult = [called |-> FALSE, null |-> TRUE, threw |-> FALSE]
    /\ dataSource = "none"
    /\ dataRequest = [passed |-> FALSE, tokenCount |-> 0]
    /\ readFiles = <<>>
    /\ written = 0
    /\ ScoreIdle
    /\ OptConstructed

OverlapNext == OverlapWrite \/ OverlapRead \/ OverlapReturn

SpecOverlap == OverlapInit /\ [][OverlapNext]_vars

---------------------------------------------------------------------------
(* JavaScript numbers: IEEE-754 binary64 arithmetic *)

\* The significand of a binary64 number has 53 binary digits: 52 stored and the leading 1.
SignificandBits == 52 + 1

\* Natural numbers wider than a machine word, as digits to the base 2^14,
\* the least significant first and the most significant not 0; <<>> is zero.
LimbBits == 7 + 7

Base == 128 * 128

RECURSIVE Pow2(_)
Pow2(k) == IF k = 0 THEN 1 ELSE 2 * Pow2(k - 1)

RECURSIVE Width(_)
\* the number of binary digits of n
Width(n) == IF n = 0 THEN 0 ELSE 1 + Width(n \div 2)

RECURSIVE LimbsOf(_)
LimbsOf(n) == IF n = 0 THEN <<>> ELSE <<n % Base>> \o LimbsOf(n \div Base)

RECURSIVE Trim(_)
Trim(a) ==
    IF a = <<>> THEN a
    ELSE IF a[Len(a)] # 0 THEN a
    ELSE Trim(SubSeq(a, 1, Len(a) - 1))

RECURSIVE LAdd(_, _, _)
\* a + b + carry
LAdd(a, b, carry) ==
    IF a = <<>> /\ b = <<>> THEN (IF carry = 0 THEN <<>> ELSE <<carry>>)
    ELSE IF b = <<>> /\ carry = 0 THEN a
    ELSE IF a = <<>> /\ carry = 0 THEN b
    ELSE LET x == IF a = <<>> THEN 0 ELSE Head(a)
             y == IF b = <<>> THEN 0 ELSE Head(b)
             s == x + y + carry
         IN  <<s % Base>> \o LAdd(IF a = <<>> THEN a ELSE Tail(a),
                                  IF b = <<>> THEN b ELSE Tail(b), s \div Base)

RECURSIVE LSubDigits(_, _, _)
LSubDigits(a, b, borrow) ==
    IF a = <<>> THEN <<>>
    ELSE LET y == IF b = <<>> THEN 0 ELSE Head(b)
             d == Head(a) - y - borrow
         IN  <<(d + Base) % Base>> \o LSubDigits(Tail(a), IF b = <<>> THEN b ELSE Tail(b),
                                                  IF d < 0 THEN 1 ELSE 0)

\* a - b for a >= b
LSub(a, b) == Trim(LSubDigits(a, b, 0))

RECURSIVE LLessFrom(_, _, _)
LLessFrom(a, b, i) ==
    IF i = 0 THEN FALSE
    ELSE IF a[i] # b[i] THEN a[i] < b[i]
    ELSE LLessFrom(a, b, i - 1)

\* a < b
LLess(a, b) ==
    IF Len(a) # Len(b) THEN Len(a) < Len(b) ELSE LLessFrom(a, b, Len(a))

RECURSIVE LMulSmall(_, _, _)
\* a * d + carry for a digit d
LMulSmall(a, d, carry) ==
    IF a = <<>> THEN (IF carry = 0 THEN <<>> ELSE <<carry>>)
    ELSE LET p == Head(a) * d + carry
         IN  <<p % Base>> \o LMulSmall(Tail(a), d, p \div Base)

\* a * Base^k
ShiftLimbs(a, k) == IF a = <<>> \/ k = 0 THEN a ELSE [i \in 1..k |-> 0] \o a

RECURSIVE LMul(_, _)
\* a * b
LMul(a, b) ==
    IF a = <<>> \/ b = <<>> THEN <<>>
    ELSE LAdd(Trim(LMulSmall(a, Head(b), 0)), ShiftLimbs(LMul(a, Tail(b)), 1), 0)

\* a * 2^k
ShiftLeft(a, k) == ShiftLimbs(LMulSmall(a, Pow2(k % LimbBits), 0), k \div LimbBits)

RECURSIVE LDivSmallFrom(_, _, _, _)
\* Short division of the digits i..1 of a by a digit d with r carried down:
\* <<quotient digits, remainder>>.
LDivSmallFrom(a, d, i, r) ==
    IF i = 0 THEN <<<<>>, r>>
    ELSE LET cur   == r * Base + a[i]
             lower == LDivSmallFrom(a, d, i - 1, cur % d)
         IN  <<Append(lower[1], cur \div d), lower[2]>>

\* <<a \div 2^k, whether a non-zero part was dropped>>
ShiftRight(a, k) ==
    LET whole == IF k \div LimbBits < Len(a) THEN k \div LimbBits ELSE Len(a)
        upper == SubSeq(a, whole + 1, Len(a))
        qr    == LDivSmallFrom(upper, Pow2(k % LimbBits), Len(upper), 0)
    IN  <<Trim(qr[1]), qr[2] # 0 \/ \E i \in 1..whole : a[i] # 0>>

\* the number of binary digits of a
BitLen(a) == IF a = <<>> THEN 0 ELSE (Len(a) - 1) * LimbBits + Width(a[Len(a)])

IsOdd(a) == a # <<>> /\ a[1] % 2 = 1

RECURSIVE DivBits(_, _, _, _, _)
\* Long division: the binary digits j..1 of one digit of the dividend brought
\* down onto the remainder r: <<quotient digit, remainder>>.
DivBits(limb, j, b, r, q) ==
    IF j = 0 THEN <<q, r>>
    ELSE LET down == LAdd(r, r, (limb \div Pow2(j - 1)) % 2)
         IN  IF LLess(down, b) THEN DivBits(limb, j - 1, b, down, 2 * q)
             ELSE DivBits(limb, j - 1, b, LSub(down, b), 2 * q + 1)

RECURSIVE DivFrom(_, _, _, _, _)
\* The digits i..1 of a brought down onto r, q the quotient digits so far.
DivFrom(a, b, i, r, q) ==
    IF i = 0 THEN <<q, r>>
    ELSE LET cur == DivBits(a[i], LimbBits, b, r, 0)
         IN  DivFrom(a, b, i - 1, cur[2], <<cur[1]>> \o q)

\* <<a \div b, a % b>> for b > 0
LDivMod(a, b) ==
    LET qr == DivFrom(a, b, Len(a), <<>>, <<>>) IN <<Trim(qr[1]), qr[2]>>

RECURSIVE SqrtPairs(_, _, _, _)
\* Digit-by-digit square root: the pairs of binary digits j..1 of one digit
\* of a brought down: <<root, remainder>>.
SqrtPairs(limb, j, root, rem) ==
    IF j = 0 THEN <<root, rem>>
    ELSE LET pair  == (limb \div Pow2(2 * (j - 1))) % 4
             down  == LAdd(ShiftLeft(rem, 2), LimbsOf(pair), 0)
             trial == LAdd(ShiftLeft(root, 2), <<1>>, 0)
         IN  IF LLess(down, trial) THEN SqrtPairs(limb, j - 1, LAdd(root, root, 0), down)
             ELSE SqrtPairs(limb, j - 1, LAdd(root, root, 1), LSub(down, trial))

RECURSIVE SqrtFrom(_, _, _, _)
SqrtFrom(a, i, root, rem) ==
    IF i = 0 THEN <<root, rem>>
    ELSE LET cur == SqrtPairs(a[i], LimbBits \div 2, root, rem)
         IN  SqrtFrom(a, i - 1, cur[1], cur[2])

\* <<the integer square root of a, what is left of a>>
LSqrtRem(a) == SqrtFrom(a, Len(a), <<>>, <<>>)

\* A number is NaN, or (-1)^neg * m * 2^e with m of SignificandBits digits,
\* or zero (m = <<>>).  The functions modelled here stay far from the ends of
\* the exponent range, which is left unbounded.
NumNaN == [nan |-> TRUE, neg |-> FALSE, m |-> <<>>, e |-> 0]

Zero == [nan |-> FALSE, neg |-> FALSE, m |-> <<>>, e |-> 0]

\* The one element of a singleton: operands are bound with v \in {operand},
\* so that each is computed once.
The(S) == CHOOSE v \in S : TRUE

\* (-1)^neg * kept * 2^e with kept of SignificandBits digits, rounded up by
\* one unit in the last place when up.
RoundKept(neg, kept, e, up) ==
    The({IF BitLen(r) > SignificandBits
           THEN [nan |-> FALSE, neg |-> neg, m |-> ShiftRight(r, 1)[1], e |-> e + 1]
           ELSE [nan |-> FALSE, neg |-> neg, m |-> r, e |-> e] :
         r \in {IF up THEN LAdd(kept, <<1>>, 0) ELSE kept}})

\* (-1)^neg * n * 2^e (plus a non-zero part below the last digit of n when
\* inexact), rounded to the nearest number, ties to the even significand.
RoundBits(neg, n0, e, inexact) ==
    The({IF n = <<>> THEN Zero
         ELSE IF len <= SignificandBits
           THEN [nan |-> FALSE, neg |-> neg, m |-> ShiftLeft(n, SignificandBits - len),
                 e |-> e - (SignificandBits - len)]
         ELSE The({The({RoundKept(neg, kept, e + len - SignificandBits,
                                  IsOdd(above[1])
                                    /\ (inexact \/ above[2] \/ IsOdd(kept))) :
                        kept \in {ShiftRight(above[1], 1)[1]}}) :
                   above \in {ShiftRight(n, len - SignificandBits - 1)}}) :
         n \in {n0}, len \in {BitLen(n0)}})

\* An integer literal.
FromInt(n) == RoundBits(n < 0, LimbsOf(IF n < 0 THEN -n ELSE n), 0, FALSE)

NumNeg(a0) ==
    The({IF a.nan \/ a.m = <<>> THEN a ELSE [a EXCEPT !.neg = ~a.neg] : a \in {a0}})

\* x * 2^e + y * 2^e with the signs of a and b
AddAligned(a, b, x, y, e) ==
    IF a.neg = b.neg THEN RoundBits(a.neg, LAdd(x, y, 0), e, FALSE)
    ELSE IF x = y THEN Zero
    ELSE IF LLess(x, y) THEN RoundBits(b.neg, LSub(y, x), e, FALSE)
    ELSE RoundBits(a.neg, LSub(x, y), e, FALSE)

\* a + b
NumAdd(a0, b0) ==
    The({IF a.nan \/ b.nan THEN NumNaN
         ELSE IF a.m = <<>> THEN b
         ELSE IF b.m = <<>> THEN a
         ELSE The({AddAligned(a, b, x, y, IF a.e < b.e THEN a.e ELSE b.e) :
                   x \in {ShiftLeft(a.m, IF a.e < b.e THEN 0 ELSE a.e - b.e)},
                   y \in {ShiftLeft(b.m, IF a.e < b.e THEN b.e - a.e ELSE 0)}}) :
         a \in {a0}, b \in {b0}})

\* a - b
NumSub(a, b) == NumAdd(a, NumNeg(b))

\* a * b
NumMul(a0, b0) ==
    The({IF a.nan \/ b.nan THEN NumNaN
         ELSE IF a.m = <<>> \/ b.m = <<>> THEN Zero
         ELSE RoundBits(a.neg # b.neg, LMul(a.m, b.m), a.e + b.e, FALSE) :
         a \in {a0}, b \in {b0}})

\* a / b for b # 0 (the divisions modelled are all guarded against a zero
\* divisor, so Infinity is not represented)
NumDiv(a0, b0) ==
    The({IF a.nan \/ b.nan \/ b.m = <<>> THEN NumNaN
         ELSE IF a.m = <<>> THEN Zero
         ELSE The({RoundBits(a.neg # b.neg, qr[1], a.e - b.e - (SignificandBits + 2),
                             qr[2] # <<>>) :
                   qr \in {LDivMod(ShiftLeft(a.m, SignificandBits + 2), b.m)}}) :
         a \in {a0}, b \in {b0}})

\* Math.sqrt(a)
NumSqrt(a0) ==
    The({IF a.nan THEN NumNaN
         ELSE IF a.m = <<>> THEN Zero
         ELSE IF a.neg THEN NumNaN
         ELSE The({The({RoundBits(FALSE, sr[1], (a.e - s) \div 2, sr[2] # <<>>) :
                        sr \in {LSqrtRem(ShiftLeft(a.m, s))}}) :
                   s \in {IF (a.e - SignificandBits) % 2 = 0
                            THEN SignificandBits + 2 ELSE SignificandBits + 3}}) :
         a \in {a0}})

\* a > 0, a === 0
NumPositive(a0) == \E a \in {a0} : ~a.nan /\ a.m # <<>> /\ ~a.neg

NumIsZero(a0) == \E a \in {a0} : ~a.nan /\ a.m = <<>>

\* The number a decimal literal n/d denotes.
Decimal(n, d) == NumDiv(FromInt(n), FromInt(d))

RECURSIVE NumSumFrom(_, _)
\* xs.reduce((sum, x) => sum + x, start)
NumSumFrom(start, xs) ==
    IF xs = <<>> THEN start
    ELSE The({NumSumFrom(sum, Tail(xs)) : sum \in {NumAdd(start, Head(xs))}})

NumSum(xs) == NumSumFrom(Zero, xs)

\* Math.pow(p - mean, 2) for each profit, taken as the rounded product
SquaredDeviations(profits, mean) ==
    [i \in DOMAIN profits |->
        The({NumMul(dev, dev) : dev \in {NumSub(profits[i], mean)}})]

\* calculateSharpeRatio as it computes on binary64 numbers
calculateSharpeRatioBinary64(profits) ==
    IF Len(profits) < 2 THEN Zero
    ELSE The({The({IF NumPositive(stdDev) THEN NumDiv(mean, stdDev) ELSE Zero :
                   stdDev \in {NumSqrt(NumDiv(NumSum(SquaredDeviations(profits, mean)),
                                              FromInt(Len(profits))))}}) :
              mean \in {NumDiv(NumSum(profits), FromInt(Len(profits)))}})

\* calculateConsistency as it computes on binary64 numbers
calculateConsistencyBinary64(profits) ==
    IF Len(profits) < 3 THEN Zero
    ELSE LET profitStreak == [i \in DOMAIN profits |->
                                 IF NumPositive(profits[i]) THEN FromInt(1) ELSE FromInt(0)]
         IN  NumDiv(NumSum(profitStreak), FromInt(Len(profits)))

\* sum of x[i] * y[i]
SumOfProducts(x, y) == NumSum([i \in DOMAIN x |-> NumMul(x[i], y[i])])

\* n * sumSquares - sum * sum
ScaledVariance(n, sumSquares, sum) == NumSub(NumMul(n, sumSquares), NumMul(sum, sum))

\* calculateCorrelation as it computes on binary64 numbers
calculateCorrelationBinary64(x, y) ==
    The({The({IF NumIsZero(denominator) THEN Zero
              ELSE NumDiv(NumSub(NumMul(n, SumOfProducts(x, y)), NumMul(sumX, sumY)),
                          denominator) :
              denominator \in {NumSqrt(NumMul(ScaledVariance(n, SumOfProducts(x, x), sumX),
                                              ScaledVariance(n, SumOfProducts(y, y), sumY)))}}) :
         n \in {FromInt(Len(x))}, sumX \in {NumSum(x)}, sumY \in {NumSum(y)}})

---------------------------------------------------------------------------
(* The statistical functions on bounded samples *)

MaxSamples == 3

\* Profits in percent, calculated scores and expected scores.
ProfitSamples == {Decimal(1, 10), Decimal(-73, 10), Decimal(125, 10)}

ScoreSamples == {Decimal(18821, 1000), FromInt(50)}

ExpectedSamples == {FromInt(95), FromInt(10)}

StatInputs ==
    {[profits |-> p, predicted |-> <<>>, actual |-> <<>>] :
        p \in UNION {[1..n -> ProfitSamples] : n \in 0..MaxSamples}}
    \cup UNION {{[profits |-> <<>>, predicted |-> x, actual |-> y] :
                    x \in [1..n -> ScoreSamples], y \in [1..n -> ExpectedSamples]} :
                 n \in 1..MaxSamples}

StatSharpe ==
    /\ statOutput.fn = "none"
    /\ statOutput' = [fn |-> "calculateSharpeRatio",
                      value |-> calculateSharpeRatioBinary64(statInput.profits)]
    /\ UNCHANGED <<scArgs, scScore, scPrevArgs, scPrevScore, statInput>>

StatConsistency ==
    /\ statOutput.fn = "none"
    /\ statOutput' = [fn |-> "calculateConsistency",
                      value |-> calculateConsistencyBinary64(statInput.profits)]
    /\ UNCHANGED <<scArgs, scScore, scPrevArgs, scPrevScore, statInput>>

StatCorrelation ==
    /\ statOutput.fn = "none"
    /\ statOutput' = [fn |-> "calculateCorrelation",
                      value |-> calculateCorrelationBinary64(statInput.predicted,
                                                             statInput.actual)]
    /\ UNCHANGED <<scArgs, scScore, scPrevArgs, scPrevScore, statInput>>

StatInit ==
    /\ statInput \in StatInputs
    /\ statOutput = NoStatistic
    /\ scArgs = NoArgs
    /\ scScore = NoScore
    /\ scPrevArgs = NoArgs
    /\ scPrevScore = NoScore
    /\ OptConstructed
    /\ RunIdle
    /\ LogEmpty
    /\ CacheIdle

StatNext ==
    \/ StatSharpe      /\ UNCHANGED <<optVars, simVars, cacheVars>>
    \/ StatConsistency /\ UNCHANGED <<optVars, simVars, cacheVars>>
    \/ StatCorrelation /\ UNCHANGED <<optVars, simVars, cacheVars>>

SpecStat == StatInit /\ [][StatNext]_vars

---------------------------------------------------------------------------
(* Calls of the calculator on bounded inputs *)

ScoreArchetypes ==
    {"elite_analyst", "newbie", "bot_spammer", "rug_promoter", "unknown", "constructor"}

AverageProfitInputs == {-100000, -30000, -29000, 10000, 50000, 50500}

WinRateInputs == {0, 450, 1000}

SharpeInputs == {-1500, 700}

AlphaInputs == {-50000, 10000}

ConsistencyInputs == {-3000, 0, 1000}

QualityInputs == {<<0, 0>>, <<0, 100>>, <<50, 10>>}   \* <<rugPromotions, goodCalls>>

TotalCallsInputs == {0, 4, 9, 95, 120, 160, 700, 1100}

ScoreOf(args) ==
    LET s == calculateBalancedTrustScore(DefaultBalancedParams, args, args.archetype,
                 args.rugPromotions, args.goodCalls, args.totalCalls)
    IN  [set |-> TRUE, nan |-> s.nan, v |-> s.v]

ScoreInit ==
    /\ scArgs \in [averageProfit : AverageProfitInputs, winRate : WinRateInputs,
                   sharpeRatio : SharpeInputs, alpha : AlphaInputs,
                   consistency : ConsistencyInputs, archetype : ScoreArchetypes,
                   rugPromotions : {q[1] : q \in QualityInputs},
                   goodCalls : {q[2] : q \in QualityInputs},
                   totalCalls : {0}]
    /\ <<scArgs.rugPromotions, scArgs.goodCalls>> \in QualityInputs
    /\ scScore = NoScore
    /\ scPrevArgs = NoArgs
    /\ scPrevScore = NoScore
    /\ statInput = NoSamples
    /\ statOutput = NoStatistic

\* First call: the total call count is the remaining argument.
ScoreCall ==
    /\ ~scScore.set
    /\ \E t \in TotalCallsInputs :
          /\ scArgs' = [scArgs EXCEPT !.totalCalls = t]
          /\ scScore' = ScoreOf(scArgs')
    /\ UNCHANGED <<scPrevArgs, scPrevScore, statInput, statOutput, optVars, simVars,
                   cacheVars>>

\* Second call with every argument but totalCalls held fixed.
ScoreWithTotalCalls ==
    /\ scScore.set /\ ~scPrevScore.set
    /\ \E t \in TotalCallsInputs :
          /\ t # scArgs.totalCalls
          /\ scArgs' = [scArgs EXCEPT !.totalCalls = t]
          /\ scScore' = ScoreOf(scArgs')
    /\ scPrevArgs' = scArgs
    /\ scPrevScore' = scScore
    /\ UNCHANGED <<statInput, statOutput, optVars, simVars, cacheVars>>

\* Second call with every argument but metrics.averageProfit held fixed.
ScoreWithAverageProfit ==
    /\ scScore.set /\ ~scPrevScore.set
    /\ \E p \in AverageProfitInputs :
          /\ p # scArgs.averageProfit
          /\ scArgs' = [scArgs EXCEPT !.averageProfit = p]
          /\ scScore' = ScoreOf(scArgs')
    /\ scPrevArgs' = scArgs
    /\ scPrevScore' = scScore
    /\ UNCHANGED <<statInput, statOutput, optVars, simVars, cacheVars>>

ScoreNext == ScoreCall \/ ScoreWithTotalCalls \/ ScoreWithAverageProfit

ScoreStart == ScoreInit /\ OptConstructed /\ RunIdle /\ LogEmpty /\ CacheIdle

SpecScore == ScoreStart /\ [][ScoreNext]_vars

---------------------------------------------------------------------------
(* Back-fill passes over bounded call logs *)

BackfillNext ==
    \/ BackfillFirst /\ UNCHANGED <<scoreVars, optVars, runVars, cacheVars>>
    \/ BackfillAgain /\ UNCHANGED <<scoreVars, optVars, runVars, cacheVars>>

BackfillStart == BackfillInit /\ ScoreIdle /\ OptConstructed /\ RunIdle /\ CacheIdle

SpecBackfill == BackfillStart /\ [][BackfillNext]_vars

---------------------------------------------------------------------------
(* evaluateAccuracy on bounded score lists *)

MaxScoreListLen == 3

\* Score entries as evaluateAccuracy reads them.
ScoreEntryInputs ==
    {[calculatedScore |-> c, expectedScore |-> e, difference |-> Abs(c - e)] :
        c \in {10 * Scale, 50 * Scale, 50 * Scale + 500}, e \in {10 * Scale, 50 * Scale}}

ScoreListInputs == UNION {[1..n -> ScoreEntryInputs] : n \in 0..MaxScoreListLen}

\* A call of evaluateAccuracy(scores).
AccEvaluate ==
    /\ \E scores \in ScoreListInputs :
          /\ accScores' = [set |-> TRUE, scores |-> scores]
          /\ accResult' = evaluateAccuracy(scores)
    /\ UNCHANGED <<currentParams, optPc, optRanges, optPreParams, simulationData,
                   paramCombinations, optIndex, bestParams, bestScore, maeLog,
                   optReturned, optRuns>>

AccNext == AccEvaluate /\ UNCHANGED <<scoreVars, simVars, cacheVars>>

AccStart == OptConstructed /\ ScoreIdle /\ RunIdle /\ LogEmpty /\ CacheIdle

SpecAcc == AccStart /\ [][AccNext]_vars

---------------------------------------------------------------------------
(* C1: for every archetype string and every finite input,                  *)
(* calculateBalancedTrustScore returns a score s with 0 <= s <= 100.       *)
C1_ScoreInBounds ==
    scScore.set => (~scScore.nan /\ 0 <= scScore.v /\ scScore.v <= 100000)

\* The tolerance-scaled high-volume threshold of an archetype, in
\* thousandths of a call; a comparison with a non-number is false.
AboveHighThreshold(totalCalls, archetype) ==
    LET tol == DefaultBalancedParams.volumeToleranceByArchetype
        tolerance == IF archetype \in DOMAIN tol THEN tol[archetype] ELSE 1000
    IN  /\ archetype \notin ObjectPrototypeKeys
        /\ totalCalls * Scale > DefaultBalancedParams.highVolumeThreshold * tolerance

C6_BothAbove ==
    /\ scPrevScore.set
    /\ AboveHighThreshold(scPrevArgs.totalCalls, scArgs.archetype)
    /\ AboveHighThreshold(scArgs.totalCalls, scArgs.archetype)

C2_BackfillIdempotent ==
    passes >= 2 =>
        /\ Len(calls) = Len(firstPass)
        /\ \A i \in DOMAIN calls : calls[i].actualProfit = firstPass[i].actualProfit

\* Two passes over a log holding a call with a non-zero profit and a call
\* the pass zeroes or skips.
C2_Witness ==
    /\ passes >= 2
    /\ \E i \in DOMAIN calls : calls[i].actualProfit.set /\ calls[i].actualProfit.v # 0
    /\ \E i \in DOMAIN calls : calls[i].actualProfit.v = 0

\* The parameter names given a candidate list in the ranges of the search.
RangeKeys == {optRanges[i][1] : i \in DOMAIN optRanges}

ValuesOf(i) == {optRanges[i][2][j] : j \in DOMAIN optRanges[i][2]}

AllListsNonEmpty == \A i \in DOMAIN optRanges : optRanges[i][2] # <<>>

(* C3: when runSimulation completes, every call of the returned call log   *)
(* has a defined numeric actualProfit.                                     *)
C3_AllProfitsDefined ==
    simPc = "done" => \A i \in DOMAIN calls : calls[i].actualProfit.set

\* A completed run whose log holds a call with a non-zero profit and a call
\* made at the last step, whose profit is 0.
C3_Witness ==
    /\ simPc = "done"
    /\ \E i \in DOMAIN calls : calls[i].actualProfit.set /\ calls[i].actualProfit.v # 0
    /\ \E i \in DOMAIN calls :
          /\ calls[i].actualProfit = Defined(0)
          /\ calls[i].timestamp = config.endTime

\* actualProfit of call i before and after a step (undefined before the call exists)
ProfitBefore(i) == IF i \in DOMAIN calls THEN calls[i].actualProfit ELSE Undefined

(* C4: no call has actualProfit defined while the run is stepping; a       *)
(* call's actualProfit is assigned in the back-fill pass of the finalizing *)
(* state, once; and a value once assigned never changes afterwards, not by *)
(* aggregation, caching or scoring.                                        *)
C4_ProfitLifecycle ==
    /\ [](simPc \in {"idle", "stepping"} =>
             \A i \in DOMAIN calls : ~calls[i].actualProfit.set)
    /\ [](passes <= 1)
    /\ [][/\ Len(calls') >= Len(calls)
          /\ \A i \in DOMAIN calls' :
                /\ ProfitBefore(i).set => calls'[i].actualProfit = ProfitBefore(i)
                /\ (~ProfitBefore(i).set /\ calls'[i].actualProfit.set) =>
                      (simPc = "finalizing" /\ passes = 0 /\ passes' = 1)]_vars

\* A run that back-filled a non-empty log once, aggregated, wrote the four
\* cache files, returned and was scored, with the profits of the pass intact.
C4_Witness ==
    /\ simPc = "done"
    /\ accScores.set
    /\ Cardinality(DOMAIN cacheFiles) = 4
    /\ passes = 1
    /\ calls # <<>>
    /\ calls = firstPass
    /\ \E i \in DOMAIN calls : calls[i].actualProfit.v # 0

\* The score-list entries of an actor id.
ScoresOf(userId) ==
    {accScores.scores[i].calculatedScore :
        i \in {j \in DOMAIN accScores.scores : accScores.scores[j].userId = userId}}

\* A full cycle of the largest run here: the default actors, every step and
\* token the bounds allow, simulated and then scored.
FullCycle ==
    /\ simPc = "done"
    /\ accScores.set
    /\ config.actors = DefaultActors
    /\ stepCount = MaxSteps
    /\ config.tokenCount = MaxTokens

(* C5: after a full simulation and scoring cycle with the default actors,  *)
(* the elite_analyst actor's calculatedScore is strictly greater than the  *)
(* rug_promoter actor's and than the bot_spammer actor's.                  *)
C5_EliteOutranksRugAndBot ==
    FullCycle =>
        /\ ScoresOf("elite-1") # {}
        /\ ScoresOf("rug-1") # {}
        /\ ScoresOf("bot-1") # {}
        /\ \A e \in ScoresOf("elite-1") :
              /\ \A r \in ScoresOf("rug-1") : e > r
              /\ \A b \in ScoresOf("bot-1") : e > b

\* A full cycle of the end-to-end scenario at the largest run here.
ScenarioCycle ==
    /\ simPc = "done"
    /\ accScores.set
    /\ config.actors = ScenarioActors
    /\ stepCount = MaxSteps
    /\ config.tokenCount = MaxTokens

(* C11: after simulating and scoring the three-actor end-to-end scenario,  *)
(* the elite analyst's calculatedScore is at least 20 points above the rug *)
(* promoter's calculatedScore.                                             *)
C11_EliteLeadsRugBy20 ==
    ScenarioCycle =>
        /\ ScoresOf(TestElite.id) # {}
        /\ ScoresOf(TestRug.id) # {}
        /\ \A e \in ScoresOf(TestElite.id), r \in ScoresOf(TestRug.id) :
              e >= r + 20 * Scale

\* Number of entries the score list holds for an actor id.
EntriesOf(userId) ==
    Cardinality({j \in DOMAIN accScores.scores : accScores.scores[j].userId = userId})

(* C12: an optimization cycle on a fresh simulation of the nine default    *)
(* actors returns a score list with exactly one entry for each of the nine *)
(* actors.                                                                 *)
C12_OneScorePerActor ==
    (simPc = "done" /\ accScores.set /\ config.actors = DefaultActors) =>
        /\ Len(accScores.scores) = Len(DefaultActors)
        /\ \A i \in DOMAIN DefaultActors : EntriesOf(DefaultActors[i].id) = 1

\* Expected trust scores put in place of the default ones.
ExpectedInputs == {0, 5 * Scale, 100 * Scale}

\* The default actor list with every expected trust score replaced by e.
WithExpected(e) ==
    [i \in DOMAIN DefaultActors |-> [DefaultActors[i] EXCEPT !.expectedTrustScore = e]]

\* The calculatedScore of each scored actor, in the order of the list.
CalculatedOf(scores) ==
    [i \in DOMAIN scores |-> <<scores[i].userId, scores[i].calculatedScore>>]

(* C13: whenever a score list is computed, scoring the same call log and   *)
(* price histories with other expected trust scores for the actors gives   *)
(* every actor the same calculatedScore.                                   *)
C13_ScoreIgnoresExpected ==
    [][accScores' # accScores =>
          \A e \in ExpectedInputs :
              CalculatedOf(calculateTrustScoresEnhancedFrom(WithExpected(e), currentParams',
                                                            simulationData'))
                = CalculatedOf(accScores'.scores)]_vars

\* A scored list with two actors whose expectedScore changes with the
\* replaced expected trust scores.
C13_Witness ==
    /\ accScores.set
    /\ accScores.scores = calculateTrustScoresEnhanced(currentParams, simulationData)
    /\ Len(accScores.scores) >= 2
    /\ \E e \in ExpectedInputs :
          LET other == calculateTrustScoresEnhancedFrom(WithExpected(e), currentParams,
                                                        simulationData)
          IN  /\ Len(other) = Len(accScores.scores)
              /\ \A i \in DOMAIN other :
                    other[i].expectedScore # accScores.scores[i].expectedScore

\* File n of the cache holds the whole text of its part of the returned result.
CacheFileComplete(n) ==
    /\ CacheFileNames[n] \in DOMAIN cacheFiles
    /\ cacheFiles[CacheFileNames[n]] = WrittenFile(n, CachePart(n, SimulationResult))

(* C15: when runSimulation with cacheResults = true resolves, all four     *)
(* cache files hold the complete text of the returned result; a cache      *)
(* write that fails makes runSimulation reject, and a rejected run never   *)
(* resolves.                                                               *)
C15_CacheWrittenOrRejected ==
    /\ []((simPc = "done" /\ config.cacheResults) =>
             \A n \in DOMAIN CacheFileNames : CacheFileComplete(n))
    /\ []((\E f \in DOMAIN cacheFiles : ~cacheFiles[f].parses) => simPc = "rejected")
    /\ [][/\ simPc = "caching" =>
                \/ simPc' = "rejected"
                \/ /\ Cardinality(DOMAIN cacheFiles') = Cardinality(DOMAIN cacheFiles) + 1
                   /\ \A f \in DOMAIN cacheFiles' : cacheFiles'[f].parses
          /\ simPc = "rejected" => simPc' = "rejected"]_vars

\* A run with calls that resolved after writing the four files.
C15_Witness ==
    /\ simPc = "done"
    /\ config.cacheResults
    /\ calls # <<>>
    /\ \A n \in DOMAIN CacheFileNames : CacheFileComplete(n)
    /\ \E a \in DOMAIN priceHistory :
          /\ priceHistory[a] # <<>>
          /\ cacheFiles[CacheFileNames[3]].text[a][1].timestamp
                = IsoString(priceHistory[a][1].timestamp)

\* All four cache files are there and parse.
CacheLoadable(files) ==
    \A n \in DOMAIN CacheFileNames :
        CacheFileNames[n] \in DOMAIN files /\ files[CacheFileNames[n]].parses

(* C14: a cached load over a directory where one of the four files is      *)
(* missing or unparsable yields null without throwing, and                 *)
(* getSimulationData then returns the result of a fresh simulation.        *)
C14_BrokenCacheFallsBack ==
    [][(loadResult'.called /\ ~CacheLoadable(cacheFiles)) =>
          /\ loadResult'.null
          /\ ~loadResult'.threw
          /\ dataSource' = "fresh"
          /\ simulationData' \in RunResults(dataRequest'.tokenCount)]_vars

\* A fresh result returned after a load over a directory that still holds an
\* unparsable file and lacks another.
C14_Witness ==
    /\ dataSource = "fresh"
    /\ loadResult.called /\ loadResult.null
    /\ \E f \in DOMAIN cacheFiles : ~cacheFiles[f].parses
    /\ Cardinality(DOMAIN cacheFiles) < Len(CacheFileNames)

\* The calculator's parameters after setParameters(candidate): the candidate's
\* values over the calculator's own.
InstalledParams(candidate) ==
    [k \in DOMAIN DefaultBalancedParams |->
        IF k \in DOMAIN candidate THEN candidate[k] ELSE DefaultBalancedParams[k]]

\* The score of userId when the calculator holds calcParams and scores the
\* actor as archetype; params are the optimizer's current parameters.
ScoreUnder(calcParams, archetype, params, simData, userId) ==
    LET actorCalls == SelectSeq(simData.calls, LAMBDA c : c.userId = userId)
    IN  calculateBalancedTrustScore(calcParams,
            calculateMetrics(params, actorCalls, simData), archetype,
            Len(SelectSeq(actorCalls, IsRugPromotion)),
            Len(SelectSeq(actorCalls, IsGoodCall)), Len(actorCalls)).v

\* The archetype the default actor table gives an id.
TableArchetype(userId) ==
    IF FindDefaultActor(userId) # 0
      THEN DefaultActors[FindDefaultActor(userId)].archetype ELSE "unknown"

\* The score of userId computed with the candidate's values in effect.
InstalledScore(candidate, simData, userId) ==
    ScoreUnder(InstalledParams(candidate), TableArchetype(userId), candidate,
               simData, userId)

(* C16: for each candidate of the search, every actor's calculatedScore is *)
(* the score computed with that candidate's parameter values in effect.    *)
C16_CandidateInEffect ==
    (optPc = "loop" /\ optIndex > 1) =>
        \A i \in DOMAIN accScores.scores :
            accScores.scores[i].calculatedScore
              = InstalledScore(paramCombinations[optIndex - 1], simulationData,
                               accScores.scores[i].userId)

\* The calls of the log the positive-sentiment branches act on: a registered
\* token of one of the scenarios, the call step found and not the last one.
PositiveCallsOn(scenarios) ==
    {k \in DOMAIN calls :
        /\ calls[k].sentiment = "positive"
        /\ calls[k].caMentioned \in DOMAIN tokens
        /\ tokens[calls[k].caMentioned].scenario \in scenarios
        /\ LET history   == priceHistory[calls[k].caMentioned]
               callIndex == FindIndex(history, calls[k].timestamp)
           IN  callIndex # 0 /\ callIndex # Len(history)}

CallIndexOf(k) == FindIndex(priceHistory[calls[k].caMentioned], calls[k].timestamp)

\* The profit of call k when it is sold at exitIndex.
ProfitAtExit(k, exitIndex, forcedExit) ==
    LET history == priceHistory[calls[k].caMentioned]
        token   == tokens[calls[k].caMentioned]
    IN  PercentChange(history[exitIndex].price * ExitSlippage(calls[k], forcedExit),
                      history[CallIndexOf(k)].price * EntrySlippage(calls[k], token))

\* The highest price from the call step to step i.
RunningPeak(history, callIndex, i) ==
    CHOOSE p \in {history[j].price : j \in callIndex..i} :
        \A j \in callIndex..i : history[j].price <= p

\* The steps after the call priced below 30% of the running peak.
DumpSteps(history, callIndex) ==
    {i \in (callIndex + 1)..Len(history) :
        history[i].price * 10 < RunningPeak(history, callIndex, i) * 3}

\* The steps after the call priced below 10% of the call price.
RugSteps(history, callIndex) ==
    {i \in (callIndex + 1)..Len(history) :
        history[i].price * 10 < history[callIndex].price}

Least(S) == CHOOSE i \in S : \A j \in S : i <= j

(* C17: a positive call on a pump-and-dump token exits at the first step   *)
(* after the call priced below 30% of the running peak since the call,     *)
(* and at the last step of the token's price history when there is none.   *)
C17_DumpExitOrLastStep ==
    passes >= 1 =>
        \A k \in PositiveCallsOn({"pump_dump"}) :
            LET history == priceHistory[calls[k].caMentioned]
                dumps   == DumpSteps(history, CallIndexOf(k))
                exit    == IF dumps # {} THEN Least(dumps) ELSE Len(history)
            IN  /\ ExitOf(calls[k], tokens[calls[k].caMentioned], history,
                          CallIndexOf(k))[1] = exit
                /\ calls[k].actualProfit = Defined(ProfitAtExit(k, exit, dumps # {}))

(* C18: a positive call on a rug_fast, rug_slow or scam token exits at the *)
(* first index after the call index priced below 10% of the call price,    *)
(* and at the call index itself when there is none.                        *)
C18_RugExitOrCallIndex ==
    passes >= 1 =>
        \A k \in PositiveCallsOn(RugScenarios) :
            LET history == priceHistory[calls[k].caMentioned]
                rugs    == RugSteps(history, CallIndexOf(k))
                exit    == IF rugs # {} THEN Least(rugs) ELSE CallIndexOf(k)
            IN  /\ ExitOf(calls[k], tokens[calls[k].caMentioned], history,
                          CallIndexOf(k))[1] = exit
                /\ calls[k].actualProfit = Defined(ProfitAtExit(k, exit, rugs # {}))

\* A pass over a log with a call whose rug comes two steps after it, behind a
\* step priced at exactly 10% of the call price, and a call with no rug.
C18_Witness ==
    /\ passes >= 1
    /\ \E k \in PositiveCallsOn(RugScenarios) :
          LET history == priceHistory[calls[k].caMentioned]
          IN  /\ CallIndexOf(k) = 1
              /\ history[1].price = 400
              /\ RugSteps(history, 1) = {3}
              /\ calls[k].actualProfit.v # 0
    /\ \E k \in PositiveCallsOn(RugScenarios) :
          RugSteps(priceHistory[calls[k].caMentioned], CallIndexOf(k)) = {}

\* The archetype an actor was configured with, as its calls record it.
ConfiguredArchetype(simData, userId) ==
    SelectSeq(simData.calls, LAMBDA c : c.userId = userId)[1].actorArchetype

(* C19: every scored actor is scored as the archetype it was configured    *)
(* with in the simulation (the actorArchetype its calls record), whatever  *)
(* its id is.                                                              *)
C19_ScoredAsConfigured ==
    (simPc = "done" /\ accScores.set) =>
        \A i \in DOMAIN accScores.scores :
            LET userId == accScores.scores[i].userId
            IN  /\ TableArchetype(userId) = ConfiguredArchetype(simulationData, userId)
                /\ accScores.scores[i].calculatedScore
                     = ScoreUnder(DefaultBalancedParams,
                                  ConfiguredArchetype(simulationData, userId),
                                  currentParams, simulationData, userId)

\* The timing bias the run's configuration gives the actor of call k.
TimingBiasOf(k) == config.actors[FindActor(config.actors, calls[k].userId)].timingBias

\* Tenths of the simulated span elapsed at time t, compared without division:
\* ElapsedBelow(t, n) is "less than n tenths of the simulation has elapsed".
ElapsedBelow(t, tenths) ==
    (t - config.startTime) * 10 < (config.endTime - config.startTime) * tenths

(* C20: an actor with early timing bias emits no call once 60% or more of  *)
(* the simulation has elapsed, an actor with middle timing bias calls only *)
(* between 20% and 80% elapsed, and an actor with late timing bias emits   *)
(* no call before 40% has elapsed.                                         *)
C20_TimingWindows ==
    (simPc # "idle" /\ config.endTime > config.startTime) =>
        \A k \in DOMAIN calls :
            /\ TimingBiasOf(k) = "early" => ElapsedBelow(calls[k].timestamp, 6)
            /\ TimingBiasOf(k) = "middle" =>
                  /\ ~ElapsedBelow(calls[k].timestamp, 2)
                  /\ ~((config.endTime - config.startTime) * 8
                         < (calls[k].timestamp - config.startTime) * 10)
            /\ TimingBiasOf(k) = "late" => ~ElapsedBelow(calls[k].timestamp, 4)

(* C21: every call emitted by an elite_analyst actor targets a token whose *)
(* scenario is not rug_fast, rug_slow or scam and whose launch time is     *)
(* less than 48 hours before the call.                                     *)
C21_EliteCallsEarlyNonRug ==
    \A k \in DOMAIN calls :
        (calls[k].actorArchetype = "elite_analyst"
           /\ calls[k].caMentioned \in DOMAIN tokens
           /\ "launchTime" \in DOMAIN tokens[calls[k].caMentioned]) =>
            /\ tokens[calls[k].caMentioned].scenario \notin RugScenarios
            /\ calls[k].timestamp - tokens[calls[k].caMentioned].launchTime < 48 * 60

(* C22: when a simulation config is passed, the data handed to scoring     *)
(* comes from a run with that config: it holds exactly the config's        *)
(* tokenCount tokens, not the data a run with another config cached.       *)
C22_DataFromPassedConfig ==
    (dataRequest.passed /\ dataSource \in {"cache", "fresh"}) =>
        /\ dataSource = "fresh"
        /\ Len(simulationData.tokens) = dataRequest.tokenCount
        /\ Len(simulationData.priceHistory) = dataRequest.tokenCount

\* Every timestamp recorded so far, in the call log and the price histories.
RecordedTimes ==
    {calls[k].timestamp : k \in DOMAIN calls}
    \cup UNION {{priceHistory[a][i].timestamp : i \in DOMAIN priceHistory[a]} :
                   a \in DOMAIN priceHistory}

(* C23: the runner finishes step n, every call of the step appended to the *)
(* log, before it records a price point or a call of step n+1: the log is  *)
(* in non-decreasing timestamp order, each call carries the clock time of  *)
(* the step that produced it, and nothing recorded is ahead of the clock.  *)
C23_StepSynchronous ==
    /\ [](\A i, j \in DOMAIN calls : i <= j => calls[i].timestamp <= calls[j].timestamp)
    /\ [](simPc = "stepping" => \A t \in RecordedTimes : t < currentTime)
    /\ [][(simPc = "stepping" /\ stepCount' = stepCount + 1) =>
             /\ Len(calls') >= Len(calls)
             /\ SubSeq(calls', 1, Len(calls)) = calls
             /\ \A k \in (Len(calls) + 1)..Len(calls') : calls'[k].timestamp = currentTime
             /\ \A a \in DOMAIN priceHistory' :
                   /\ Len(priceHistory'[a]) \in {Len(priceHistory[a]), Len(priceHistory[a]) + 1}
                   /\ SubSeq(priceHistory'[a], 1, Len(priceHistory[a])) = priceHistory[a]
                   /\ Len(priceHistory'[a]) > Len(priceHistory[a]) =>
                         priceHistory'[a][Len(priceHistory'[a])].timestamp = currentTime
             /\ currentTime' = currentTime + config.timeStepMinutes]_vars

\* A finished run of several steps whose log holds calls of two different
\* steps, the later one at the last step.
C23_Witness ==
    /\ simPc = "done"
    /\ stepCount = MaxSteps
    /\ \E i, j \in DOMAIN calls :
          /\ i < j
          /\ calls[i].timestamp < calls[j].timestamp
          /\ calls[j].timestamp = config.endTime
    /\ \E a \in DOMAIN priceHistory : Len(priceHistory[a]) = MaxSteps

\* The unordered pairs of the scored list, and those whose calculated order
\* and expected order agree: the same strict order, or tied in both.
ScorePairs ==
    {p \in (DOMAIN accScores.scores) \X (DOMAIN accScores.scores) : p[1] < p[2]}

Sign(x) == IF x > 0 THEN 1 ELSE IF x < 0 THEN -1 ELSE 0

MatchingPairs ==
    {p \in ScorePairs :
        Sign(accScores.scores[p[1]].calculatedScore - accScores.scores[p[2]].calculatedScore)
          = Sign(accScores.scores[p[1]].expectedScore - accScores.scores[p[2]].expectedScore)}

(* C25 as stated: rankingAccuracy is the number of matching unordered pairs *)
(* divided by the number of unordered pairs, a fraction between 0 and 1.    *)
C25_RankingFraction ==
    (accScores.set /\ ScorePairs # {}) =>
        /\ accResult.rankingAccuracy
             = (Cardinality(MatchingPairs) * Scale) \div Cardinality(ScorePairs)
        /\ accResult.rankingAccuracy >= 0
        /\ accResult.rankingAccuracy <= Scale

(* C25: rankingAccuracy is the percentage of matching unordered pairs, 100 *)
(* times their number divided by the number of unordered pairs, between 0  *)
(* and 100; with no pair (fewer than two actors) it is 0.                  *)
C25_RankingPercentage ==
    accScores.set =>
        /\ ScorePairs # {} =>
              accResult.rankingAccuracy
                = ((Cardinality(MatchingPairs) * Scale) \div Cardinality(ScorePairs)) * 100
        /\ ScorePairs = {} => accResult.rankingAccuracy = 0
        /\ accResult.rankingAccuracy >= 0
        /\ accResult.rankingAccuracy <= 100 * Scale

\* Three actors: one pair tied in both orders, which counts as matching, and
\* two pairs in opposite orders: a third of the pairs match.
C25_Witness ==
    /\ accScores.set
    /\ Len(accScores.scores) = 3
    /\ Cardinality(MatchingPairs) = 1
    /\ \E p \in MatchingPairs :
          /\ accScores.scores[p[1]].calculatedScore = accScores.scores[p[2]].calculatedScore
          /\ accScores.scores[p[1]].expectedScore = accScores.scores[p[2]].expectedScore
    /\ accResult.rankingAccuracy = (Scale \div 3) * 100

(* C26: scoring a candidate of the grid search leaves the base simulation  *)
(* result as it was: call log, token registry, price histories and         *)
(* per-actor performance are the same before and after the candidate.      *)
C26_ScoringLeavesData ==
    [][(optPc = "loop" /\ optIndex' = optIndex + 1) =>
          /\ simulationData'.calls = simulationData.calls
          /\ simulationData'.tokens = simulationData.tokens
          /\ simulationData'.priceHistory = simulationData.priceHistory
          /\ simulationData'.actorPerformance = simulationData.actorPerformance]_vars

\* Two candidates scored on data with two calls, each giving a score list.
C26_Witness ==
    /\ optPc = "loop"
    /\ optIndex > 2
    /\ Len(simulationData.calls) = 2
    /\ Len(accScores.scores) = 2
    /\ Len(maeLog) >= 2

\* Two calls that differ in metrics.averageProfit alone, both giving a number.
OnlyProfitDiffers ==
    /\ scPrevScore.set
    /\ scPrevArgs.averageProfit # scArgs.averageProfit
    /\ [scPrevArgs EXCEPT !.averageProfit = scArgs.averageProfit] = scArgs
    /\ ~scScore.nan /\ ~scPrevScore.nan

(* C27: with archetype, winRate, sharpeRatio, alpha, consistency,          *)
(* rugPromotions, goodCalls and totalCalls fixed, a larger averageProfit   *)
(* never yields a smaller score.                                           *)
C27_ProfitMonotone ==
    OnlyProfitDiffers =>
        /\ scPrevArgs.averageProfit < scArgs.averageProfit => scPrevScore.v <= scScore.v
        /\ scPrevArgs.averageProfit > scArgs.averageProfit => scPrevScore.v >= scScore.v

\* floor((endTime - startTime) / step length) + 1
ExpectedSteps ==
    (config.endTime - config.startTime) \div config.timeStepMinutes + 1

RECURSIVE ProfitOver(_)
\* The sum of actualProfit over the calls at the positions in own.
ProfitOver(own) ==
    IF own = {} THEN 0
    ELSE LET k == CHOOSE x \in own : TRUE
         IN  calls[k].actualProfit.v + ProfitOver(own \ {k})

\* The positions of the calls of an actor in the call log.
CallsOf(userId) == {k \in DOMAIN calls : calls[k].userId = userId}

(* C30: in the result runSimulation returns, there is one performance record
   per configured actor, and each equals what the call log gives: totalCalls
   is the number of the actor's calls, profitableCalls the number of them
   with actualProfit > 0, totalProfit the sum of their actualProfit, and
   averageProfit is totalProfit / totalCalls, or 0 for an actor without
   calls. *)
C30_PerformanceRecomputed ==
    simPc = "done" =>
        /\ DOMAIN actorPerformance = DOMAIN config.actors
        /\ \A i \in DOMAIN actorPerformance :
              LET perf == actorPerformance[i]
                  own  == CallsOf(config.actors[i].id)
              IN  /\ perf.userId = config.actors[i].id
                  /\ \A k \in own : calls[k].actualProfit.set
                  /\ perf.totalCalls = Cardinality(own)
                  /\ perf.profitableCalls =
                        Cardinality({k \in own : calls[k].actualProfit.v > 0})
                  /\ perf.totalProfit = ProfitOver(own)
                  /\ perf.averageProfit =
                        IF own = {} THEN 0
                        ELSE perf.totalProfit \div Cardinality(own)

\* A returned result with an actor whose call made a profit, an actor whose
\* only call made none, and an actor without calls.
C30_Witness ==
    /\ simPc = "done"
    /\ \E i, j, l \in DOMAIN actorPerformance :
          /\ actorPerformance[i].profitableCalls = 1
          /\ actorPerformance[i].averageProfit > 0
          /\ actorPerformance[j].totalCalls = 1
          /\ actorPerformance[j].profitableCalls = 0
          /\ actorPerformance[j].totalProfit <= 0
          /\ actorPerformance[l].totalCalls = 0

\* What a load gives when the directory holds the four files of one run.
LoadedFrom(result) == loadCachedSimulation(CacheOf(result)).data

(* C28: a cached load that overlaps another run's cache write to the same
   directory returns the four files of one run: either the result the
   earlier run cached or the result the writing run caches, never parts
   of both. *)
C28_LoadFromOneRun ==
    (loadResult.called /\ ~loadResult.null) =>
        simulationData \in {LoadedFrom(priorCache), LoadedFrom(SimulationResult)}

\* A load returned the call log of the writing run together with the actor
\* performance of the earlier run.
C28_MixedLoad ==
    /\ loadResult.called
    /\ ~loadResult.null
    /\ simulationData.calls = SimulationResult.calls
    /\ simulationData.actorPerformance = priorCache.actorPerformance
    /\ priorCache.actorPerformance # SimulationResult.actorPerformance

\* Samples without variance: all of them the same number.
AllEqual(xs) == \A i, j \in DOMAIN xs : xs[i] = xs[j]

(* C24: on degenerate input the statistical functions return 0, never NaN:
   the Sharpe ratio for fewer than 2 profits or profits without variance,
   the consistency for fewer than 3 profits, and the correlation when the
   calculated or the expected scores have no variance. *)
C24_DegenerateStatisticsZero ==
    /\ (/\ statOutput.fn = "calculateSharpeRatio"
        /\ (Len(statInput.profits) < 2 \/ AllEqual(statInput.profits)))
          => statOutput.value = Zero
    /\ (statOutput.fn = "calculateConsistency" /\ Len(statInput.profits) < 3)
          => statOutput.value = Zero
    /\ (/\ statOutput.fn = "calculateCorrelation"
        /\ (AllEqual(statInput.predicted) \/ AllEqual(statInput.actual)))
          => statOutput.value = Zero

\* The part of C24 about too few samples, and the samples without variance
\* whose sums and squares are exact.
C24_FewOrExactSamplesZero ==
    /\ (statOutput.fn = "calculateSharpeRatio" /\ Len(statInput.profits) < 2)
          => statOutput.value = Zero
    /\ (statOutput.fn = "calculateConsistency" /\ Len(statInput.profits) < 3)
          => statOutput.value = Zero
    /\ (/\ statOutput.fn = "calculateCorrelation"
        /\ AllEqual(statInput.predicted)
        /\ \A i \in DOMAIN statInput.predicted : statInput.predicted[i] = FromInt(50))
          => statOutput.value = Zero

\* calculateSharpeRatio returned a number of at least 2^52 for three profits of 0.1,
\* and calculateCorrelation NaN for three calculated scores of 18.821.
C24_SharpeBlowsUp ==
    /\ statOutput.fn = "calculateSharpeRatio"
    /\ statInput.profits = [i \in 1..3 |-> Decimal(1, 10)]
    /\ statOutput.value.m # <<>>
    /\ statOutput.value.e >= 0

C24_CorrelationNaN ==
    /\ statOutput.fn = "calculateCorrelation"
    /\ statInput.predicted = [i \in 1..3 |-> Decimal(18821, 1000)]
    /\ statOutput.value.nan

(* C7 as stated: for every parameter given a candidate list in the ranges, *)
(* the returned value of that parameter is one of the values in the list.  *)
C7_ReturnedInRanges ==
    optReturned.set =>
        \A i \in DOMAIN optRanges : optReturned.params[optRanges[i][1]] \in ValuesOf(i)

(* C7 amended: when every candidate list is non-empty, each listed         *)
(* parameter's returned value is one of its list; when some list is empty  *)
(* no candidate is enumerated and the pre-search parameter set is returned.*)
C7_ReturnedInNonEmptyRanges ==
    optReturned.set =>
        IF AllListsNonEmpty
          THEN \A i \in DOMAIN optRanges :
                  optReturned.params[optRanges[i][1]] \in ValuesOf(i)
          ELSE paramCombinations = <<>> /\ optReturned.params = optPreParams

\* A search over two non-empty lists returned values that differ from the
\* pre-search ones.
C7_Witness ==
    /\ optReturned.set
    /\ Len(optRanges) = 2
    /\ AllListsNonEmpty
    /\ \A i \in DOMAIN optRanges :
          /\ optReturned.params[optRanges[i][1]] \in ValuesOf(i)
          /\ optReturned.params[optRanges[i][1]] # optPreParams[optRanges[i][1]]

(* C8: every parameter not named in the ranges has, in the returned set,   *)
(* the value it had in the optimizer before the search started.            *)
C8_OthersKeepPreSearchValue ==
    optReturned.set =>
        \A k \in ParamNames \ RangeKeys : optReturned.params[k] = optPreParams[k]

\* A second search that names one parameter, entered with a value an earlier
\* search had set for another parameter, and returning that value.
C8_Witness ==
    /\ optReturned.set
    /\ optRuns = 2
    /\ \E k \in ParamNames \ RangeKeys :
          /\ optPreParams[k] # ConstructorParams[k]
          /\ optReturned.params[k] = optPreParams[k]
    /\ \E k \in RangeKeys : optReturned.params[k] # optPreParams[k]

\* Index of the first candidate whose MAE is minimal (candidates evaluated so far).
FirstMinIndex ==
    CHOOSE i \in DOMAIN maeLog :
        /\ \A j \in DOMAIN maeLog : maeLog[i] <= maeLog[j]
        /\ \A j \in 1..(i - 1) : maeLog[j] > maeLog[i]

(* C9 as stated: the returned set is the enumerated candidate of minimal   *)
(* MAE, the first enumerated one among those sharing the minimum.          *)
C9_ReturnsFirstMinCandidate ==
    optReturned.set =>
        /\ paramCombinations # <<>>
        /\ Len(maeLog) = Len(paramCombinations)
        /\ optReturned.params = paramCombinations[FirstMinIndex]

(* C9 amended: when at least one candidate is enumerated the returned set  *)
(* is the first enumerated candidate of minimal MAE; when none is, the     *)
(* pre-search parameter set is returned.                                   *)
C9_FirstMinOrPreSearch ==
    optReturned.set =>
        /\ Len(maeLog) = Len(paramCombinations)
        /\ IF paramCombinations # <<>>
             THEN optReturned.params = paramCombinations[FirstMinIndex]
             ELSE optReturned.params = optPreParams

\* A search over several distinct candidates, scored on a non-empty score
\* list, that returned the first of them.
C9_Witness ==
    /\ optReturned.set
    /\ Len(paramCombinations) >= 3
    /\ paramCombinations[1] # paramCombinations[Len(paramCombinations)]
    /\ accScores.scores # <<>>
    /\ optReturned.params = paramCombinations[1]

(* C10: the accuracy evaluator called with an empty score list returns     *)
(* exactly mae = 100, rmse = 100, correlation = 0, rankingAccuracy = 0.    *)
C10_EmptyScoresAccuracy ==
    (accScores.set /\ accScores.scores = <<>>) =>
        accResult = [mae |-> 100 * Scale, rmse |-> 100 * Scale,
                     correlation |-> 0, rankingAccuracy |-> 0]

\* The evaluator was called on the empty score list of a simulation with no call.
C10_Witness ==
    /\ accScores.set
    /\ accScores.scores = <<>>
    /\ simulationData.calls = <<>>
    /\ accResult.mae = 100 * Scale

===========================================================================
